---- MODULE Spec2Model ----
(***************************************************************************)
(* Toro (River of Souls): the server-authoritative room simulation of      *)
(* server/src/index.ts and the client prediction of                        *)
(* client/src/network/ClientPrediction.ts as driven by                     *)
(* client/src/scenes/GameScene.ts.                                         *)
(*                                                                         *)
(* Number representation.  The program computes in IEEE doubles; the model *)
(* computes in fixed point:                                                *)
(*   lengths and positions   in 1/100 pixel                                *)
(*   speeds                  in 1/100 pixel per second                     *)
(*   angles                  in 1/10000 radian                             *)
(*   mouse offsets           in 1/100 (the client clamps them to [-1,1])   *)
(*   Math.cos / Math.sin     scaled by 1000                                *)
(*   times                   in milliseconds                               *)
(* Products with a fractional factor are truncated toward zero.            *)
(***************************************************************************)
EXTENDS Integers, Sequences, FiniteSets, TLC

----------------------------------------------------------------------------
(* Bounds of the exploration *)

\* highest input sequence number the client hands out
MaxSequence == 4

\* the frames a scene has run unanswered when its input history is taken up
HistoryFrom == 59

\* gameState snapshots the client handles
MaxSnapshots == 2

\* the number of ticks the game loop is followed for
MaxTick == 11

\* the highest sequence number a playerInput message carries
MaxInputSequence == 1

\* the longest body drawn for a player at a collision check
MaxBody == 2

\* the first of the tick counts a long-idle player is taken up at
IdleFrom == 295

\* the number of ticks a long-idle player is followed for
MaxIdleRun == 12

\* the number of snapshots that arrive at a snapshot buffer under watch
MaxArrivals == 3

\* the first of the tick counts a player that boosts from start-up is taken up at
SpentFrom == 31

\* the number of ticks a player that has burnt its body is followed for
MaxSpentRun == 3

\* the number of ticks two players head to head are followed for
MaxPairRun == 1

\* the number of steps the client and the server are run side by side for
MaxLockstep == 3

\* the most sockets connected at a time, and the most rooms ever created
MaxCrowd == 101

MaxRoomCounter == 3

\* the number of ticks a player that died is followed for
MaxRespawnRun == 4

\* the seconds a player that stopped steering is followed for
DragSeconds == 3

\* the number of ticks a player near the border is followed for
MaxBorderRun == 5

\* the number of ticks two connecting sockets are followed for
MaxLobbyRun == 1

\* the number of ticks two rooms are followed for
MaxTwinRun == 2

----------------------------------------------------------------------------
(* Program constants *)

\* client/src/config.ts GAME_CONFIG
CLIENT_WORLD_WIDTH == 200000
CLIENT_WORLD_HEIGHT == 200000
RADIUS == 2000
BASE_SPEED == 20000
\* TURN_SPEED is 4 rad/s: 40 units of 1/10000 rad per millisecond
TURN_SPEED == 40
\* BOOST_MULTIPLIER is 1.5, kept in tenths
BOOST_MULTIPLIER == 15
SERVER_TICK_RATE == 20
INPUT_BUFFER_SIZE == 60
MAX_POSITION_ERROR == 5000
\* RECONCILIATION_SMOOTHING is 0.1, kept in percent
RECONCILIATION_SMOOTHING == 10
INTERPOLATION_DELAY == 100
SNAPSHOT_BUFFER_SIZE == 30

\* server/src/index.ts
TICK_RATE == 20
WORLD_WIDTH == 600000
WORLD_HEIGHT == 600000
PLAYER_CONFIG_RADIUS == 2000
PLAYER_CONFIG_BASE_SPEED == 20000
\* PLAYER_CONFIG.TURN_SPEED is 4 rad/s: 40 units of 1/10000 rad per millisecond
PLAYER_CONFIG_TURN_SPEED == 40
\* PLAYER_CONFIG.BOOST_MULTIPLIER is 1.5, kept in tenths
PLAYER_CONFIG_BOOST_MULTIPLIER == 15
INITIAL_FOOD_COUNT == 60
CLUSTER_COUNT == 8
CLUSTER_SIZE == 12

\* shared/types.ts GAME_CONSTANTS
FIRST_SEGMENT_GAP == 3500
BODY_SEGMENT_SPACING == 2200
POSITION_HISTORY_RESOLUTION == 2
FOOD_MAGNET_RADIUS == 10000
FOOD_MAGNET_STRENGTH == 15000
FOOD_BASE_VALUE == 1
FOOD_RADIUS == 800
GROWTH_PER_FOOD == 1
BOOST_DROP_RATE == 2
MIN_BODY_LENGTH == 0
STARTING_BODY_LENGTH == 3
MAX_FOOD_COUNT == 100
FOOD_SPAWN_RATE == 1
DROPPED_PELLET_VALUE == 1
DEATH_DROP_VALUE == 2
BODY_SEGMENT_HITBOX == 1000
RESPAWN_DELAY == 2000

\* Math.PI
PI == 31416

\* the deadzone 0.05 of the movement model, in 1/100
DEADZONE == 5
MAX_PLAYERS_PER_ROOM == 50

MIN_ROOMS == 1
SCOREBOARD_SIZE == 5
CLUSTER_SIZE_MIN == 3
CLUSTER_SIZE_MAX == 6
CLUSTER_SPREAD == 8000
GOLDEN_MULTIPLIER == 3
BURST_SIZE == 8
BURST_SPREAD == 12000
FOOD_PADDING == 5000
\* the drag factor 0.95 of the movement model, in percent
DRAG == 95
\* reconcile ignores errors up to 0.5 pixel
NOISE_FLOOR == 50
\* applyCorrection clears corrections below 0.1 pixel
CORRECTION_EPSILON == 10

----------------------------------------------------------------------------
(* Arithmetic helpers *)

Abs(a) == IF a >= 0 THEN a ELSE -a

Min(a, b) == IF a <= b THEN a ELSE b

Max(a, b) == IF a >= b THEN a ELSE b

\* a / b truncated toward zero, b > 0
Trunc(a, b) == IF a >= 0 THEN a \div b ELSE -((-a) \div b)

\* a / b rounded to the nearest integer, a >= 0, b > 0
Round(a, b) == (a + b \div 2) \div b

\* Newton's iteration for the integer square root, from a guess r >= sqrt(n)
RECURSIVE SqrtFrom(_, _)
SqrtFrom(n, r) ==
    LET next == (r + n \div r) \div 2
    IN  IF next >= r THEN r ELSE SqrtFrom(n, next)

\* floor of Math.sqrt(n), 0 <= n < 2^30
Sqrt(n) == IF n = 0 THEN 0 ELSE SqrtFrom(n, Min(n, 32768))

\* floor of Math.sqrt(dx*dx + dy*dy)
Hypot(dx, dy) ==
    IF dy = 0 THEN Abs(dx)
    ELSE IF dx = 0 THEN Abs(dy)
    ELSE Sqrt(dx * dx + dy * dy)

\* Math.sqrt(dx*dx + dy*dy) > r, without overflowing on distant points
DistGT(dx, dy, r) ==
    \/ Abs(dx) > r
    \/ Abs(dy) > r
    \/ dx * dx + dy * dy > r * r

\* Math.sqrt(dx*dx + dy*dy) < r
DistLT(dx, dy, r) ==
    /\ Abs(dx) < r
    /\ Abs(dy) < r
    /\ dx * dx + dy * dy < r * r

\* 1000 * sin(x) for 0 <= x <= PI (Bhaskara's rational approximation,
\* exact at 0, PI/6, PI/2, 5PI/6 and PI)
SinHalf(x) ==
    LET p == (x * (PI - x)) \div 1000
        q == (PI * PI) \div 1000
        d == (5 * q - 4 * p) \div 4
    IN  Round(4000 * p, d)

\* 1000 * Math.sin(a)
Sin(a) ==
    LET b == a % (2 * PI)
    IN  IF b <= PI THEN SinHalf(b) ELSE -SinHalf(b - PI)

\* 1000 * Math.cos(a)
Cos(a) == Sin(a + PI \div 2)

\* Math.atan2(my, mx) on the eight compass directions
Atan2(my, mx) ==
    CASE mx > 0 /\ my = 0 -> 0
      [] mx > 0 /\ my = mx -> PI \div 4
      [] mx = 0 /\ my > 0 -> PI \div 2
      [] mx < 0 /\ my = -mx -> 3 * (PI \div 4)
      [] mx < 0 /\ my = 0 -> PI
      [] mx < 0 /\ my = mx -> -(3 * (PI \div 4))
      [] mx = 0 /\ my < 0 -> -(PI \div 2)
      [] mx > 0 /\ my = -mx -> -(PI \div 4)

RECURSIVE wrapAngle(_)
wrapAngle(angle) ==
    IF angle > PI THEN wrapAngle(angle - PI * 2)
    ELSE IF angle < -PI THEN wrapAngle(angle + PI * 2)
    ELSE angle

clamp(value, min, max) == Max(min, Min(max, value))

\* the bounded rotation of the movement model: rotate currentAngle toward
\* targetAngle by at most turnAmount, wrapped
Turn(currentAngle, targetAngle, turnAmount) ==
    LET angleDiff == wrapAngle(targetAngle - currentAngle)
    IN  wrapAngle(IF Abs(angleDiff) < turnAmount THEN targetAngle
                  ELSE IF angleDiff > 0 THEN currentAngle + turnAmount
                  ELSE currentAngle - turnAmount)

----------------------------------------------------------------------------
(* Server: one GameRoom and the handlers and game loop that drive it *)

VARIABLES
    room,               \* the GameRoom: players (a Map, with its key order), food, currentTick, foodIdCounter
    now,                \* Date.now()
    sockets,            \* the socket ids that have not connected yet; an id is never used twice
    horizon,            \* the number of ticks the server is observed for, fixed at start
    pc,                 \* "idle": the server runs; "collide": a collision check alone is pending; "done": it has run;
                        \* "rooms": the manager alone is followed; "history": the scene alone is
                        \* followed, from a full input history on
    playersArray,       \* checkPlayerCollisionsInRoom: the ids of the players alive at the last check
    deaths,             \* checkPlayerCollisionsInRoom: the deaths the last check collected, in order
    emits,              \* events emitted to the room by the handler or tick last run
    snapshot,           \* the gameState snapshot last broadcast to the room
    received,           \* the socket event the server handled last, and its sender; Nothing after a tick
    produced,           \* the snapshot built last, broadcast or initial: its tick number
    HEAD_COLLISION_BOTH_DIE,  \* GAME_CONSTANTS.HEAD_COLLISION_BOTH_DIE, fixed at start
    rooms,              \* RoomManager.rooms in the Map's order: of each room its id and its playerCount
    roomCounter,        \* RoomManager.roomCounter
    others              \* the GameRooms followed in full beside room, in the Map's order after it

roomVars == <<room, now, sockets, horizon, pc, playersArray, deaths, emits, snapshot,
              received, produced, HEAD_COLLISION_BOTH_DIE>>

managerVars == <<rooms, roomCounter, others>>

serverVars == <<roomVars, managerVars>>

\* no value yet (undefined)
Nothing == [absent |-> TRUE]

PlayerIds == {"p1", "p2", "p3"}

\* where createPlayer and respawnPlayer can place a player (Math.random)
SpawnPoints == { [x |-> 300000, y |-> 300000], [x |-> 303000, y |-> 300000] }

\* the headings createPlayer and respawnPlayer can draw (Math.random)
SpawnAngles == {0}

\* the inputs a playerInput message can carry
ServerInputs ==
    { [mouseX |-> 0, mouseY |-> 0, boosting |-> FALSE],
      [mouseX |-> 100, mouseY |-> 0, boosting |-> FALSE],
      [mouseX |-> 100, mouseY |-> 0, boosting |-> TRUE],
      [mouseX |-> 0, mouseY |-> 0, boosting |-> TRUE] }

\* the trail createPlayer and respawnPlayer seed behind the head
SeedHistory(x, y, angle) ==
    LET historyLength == (STARTING_BODY_LENGTH * BODY_SEGMENT_SPACING * 2) \div 100
    IN  <<[x |-> x, y |-> y]>> \o
        [ k \in 1..historyLength |->
            [ x |-> x - Trunc(Cos(angle) * (k - 1) * 50, 1000),
              y |-> y - Trunc(Sin(angle) * (k - 1) * 50, 1000) ] ]

\* createPlayer
createPlayer(playerId, start, startAngle) ==
    [ id |-> playerId,
      x |-> start.x,
      y |-> start.y,
      angle |-> startAngle,
      speed |-> 0,
      score |-> 0,
      bodySegments |-> <<>>,
      targetLength |-> STARTING_BODY_LENGTH,
      lastProcessedInput |-> 0,
      alive |-> TRUE,
      kills |-> 0,
      input |-> [sequence |-> 0, mouseX |-> 0, mouseY |-> 0, boosting |-> FALSE],
      currentAngle |-> startAngle,
      targetAngle |-> startAngle,
      currentSpeed |-> 0,
      positionHistory |-> SeedHistory(start.x, start.y, startAngle),
      boostDropAccumulator |-> 0,
      respawnTime |-> 0,
      hasJoined |-> FALSE ]

\* respawnPlayer
respawnPlayer_TimerKept(player, start, startAngle) ==
    [player EXCEPT !.x = start.x,
                   !.y = start.y,
                   !.angle = startAngle,
                   !.currentAngle = startAngle,
                   !.targetAngle = startAngle,
                   !.alive = TRUE,
                   !.score = 0,
                   !.targetLength = STARTING_BODY_LENGTH,
                   !.bodySegments = <<>>,
                   !.currentSpeed = 0,
                   !.boostDropAccumulator = 0,
                   !.positionHistory = SeedHistory(start.x, start.y, startAngle)]

respawnPlayer(player, start, startAngle) ==
    [player EXCEPT !.x = start.x,
                   !.y = start.y,
                   !.angle = startAngle,
                   !.currentAngle = startAngle,
                   !.targetAngle = startAngle,
                   !.alive = TRUE,
                   !.score = 0,
                   !.targetLength = STARTING_BODY_LENGTH,
                   !.bodySegments = <<>>,
                   !.respawnTime = 0,
                   !.currentSpeed = 0,
                   !.boostDropAccumulator = 0,
                   !.positionHistory = SeedHistory(start.x, start.y, startAngle)]

\* updatePlayerMovement that boosts whenever the boost flag is set
updatePlayerMovement_FreeBoost(player, deltaMs) ==
    IF ~player.alive THEN player
    ELSE
    LET input == player.input
        distance == Hypot(input.mouseX, input.mouseY)
        steering == distance > DEADZONE
        targetAngle == IF steering THEN Atan2(input.mouseY, input.mouseX)
                       ELSE player.targetAngle
        currentAngle == IF steering
                        THEN Turn(player.currentAngle, targetAngle,
                                  PLAYER_CONFIG_TURN_SPEED * deltaMs)
                        ELSE player.currentAngle
        baseSpeed == (PLAYER_CONFIG_BASE_SPEED * Min(distance, 100)) \div 100
        canBoost == input.boosting
        currentSpeed == IF steering
                        THEN (IF canBoost
                              THEN (baseSpeed * PLAYER_CONFIG_BOOST_MULTIPLIER) \div 10
                              ELSE baseSpeed)
                        ELSE Trunc(player.currentSpeed * DRAG, 100)
        velocityX == Trunc(Cos(currentAngle) * currentSpeed, 1000)
        velocityY == Trunc(Sin(currentAngle) * currentSpeed, 1000)
        hardLimit == -(PLAYER_CONFIG_RADIUS \div 2)
    IN  [player EXCEPT !.targetAngle = targetAngle,
                       !.currentAngle = currentAngle,
                       !.currentSpeed = currentSpeed,
                       !.x = clamp(player.x + Trunc(velocityX * deltaMs, 1000),
                                   hardLimit, WORLD_WIDTH - hardLimit),
                       !.y = clamp(player.y + Trunc(velocityY * deltaMs, 1000),
                                   hardLimit, WORLD_HEIGHT - hardLimit),
                       !.angle = currentAngle,
                       !.speed = currentSpeed]

\* updatePlayerMovement
updatePlayerMovement(player, deltaMs) ==
    IF ~player.alive THEN player
    ELSE
    LET input == player.input
        distance == Hypot(input.mouseX, input.mouseY)
        steering == distance > DEADZONE
        targetAngle == IF steering THEN Atan2(input.mouseY, input.mouseX)
                       ELSE player.targetAngle
        currentAngle == IF steering
                        THEN Turn(player.currentAngle, targetAngle,
                                  PLAYER_CONFIG_TURN_SPEED * deltaMs)
                        ELSE player.currentAngle
        baseSpeed == (PLAYER_CONFIG_BASE_SPEED * Min(distance, 100)) \div 100
        canBoost == input.boosting /\ player.targetLength > MIN_BODY_LENGTH
        currentSpeed == IF steering
                        THEN (IF canBoost
                              THEN (baseSpeed * PLAYER_CONFIG_BOOST_MULTIPLIER) \div 10
                              ELSE baseSpeed)
                        ELSE Trunc(player.currentSpeed * DRAG, 100)
        velocityX == Trunc(Cos(currentAngle) * currentSpeed, 1000)
        velocityY == Trunc(Sin(currentAngle) * currentSpeed, 1000)
        hardLimit == -(PLAYER_CONFIG_RADIUS \div 2)
    IN  [player EXCEPT !.targetAngle = targetAngle,
                       !.currentAngle = currentAngle,
                       !.currentSpeed = currentSpeed,
                       !.x = clamp(player.x + Trunc(velocityX * deltaMs, 1000),
                                   hardLimit, WORLD_WIDTH - hardLimit),
                       !.y = clamp(player.y + Trunc(velocityY * deltaMs, 1000),
                                   hardLimit, WORLD_HEIGHT - hardLimit),
                       !.angle = currentAngle,
                       !.speed = currentSpeed]

\* updatePositionHistory
updatePositionHistory(player) ==
    IF ~player.alive THEN player
    ELSE
    LET unshifted == <<[x |-> player.x, y |-> player.y]>> \o player.positionHistory
        maxSegments == Max(player.targetLength, Len(player.bodySegments)) + 5
        totalDistance == FIRST_SEGMENT_GAP + (maxSegments - 1) * BODY_SEGMENT_SPACING
        maxHistoryLength == (totalDistance * POSITION_HISTORY_RESOLUTION) \div 100
    IN  [player EXCEPT !.positionHistory =
            SubSeq(unshifted, 1, Min(Len(unshifted), maxHistoryLength))]

\* the inner while loop of calculateBodySegments: emit the segments that the
\* distance accumulated up to history[i] pays for; the spacing required was
\* read before the loop and stays
RECURSIVE EmitSegments(_, _, _, _, _, _, _)
EmitSegments(segments, distanceAccumulated, requiredSpacing, prev, curr, segmentDistance, currentLength) ==
    IF distanceAccumulated >= requiredSpacing /\ Len(segments) < currentLength
    THEN LET overshoot == distanceAccumulated - requiredSpacing
             dx == prev.x - curr.x
             dy == prev.y - curr.y
             segment ==
                IF segmentDistance > 0
                THEN [ x |-> curr.x + Trunc(dx * overshoot, segmentDistance),
                       y |-> curr.y + Trunc(dy * overshoot, segmentDistance) ]
                ELSE [ x |-> curr.x, y |-> curr.y ]
         IN  EmitSegments(Append(segments, segment),
                          distanceAccumulated - requiredSpacing, requiredSpacing,
                          prev, curr, segmentDistance, currentLength)
    ELSE [segments |-> segments, distanceAccumulated |-> distanceAccumulated]

\* one pass of the for loop of calculateBodySegments, on history[i]
WalkStep(history, i, st, currentLength) ==
    IF Len(st.segments) >= currentLength THEN st
    ELSE LET segmentDistance == Hypot(history[i - 1].x - history[i].x,
                                      history[i - 1].y - history[i].y)
             requiredSpacing == IF Len(st.segments) = 0 THEN FIRST_SEGMENT_GAP
                                ELSE BODY_SEGMENT_SPACING
         IN  IF st.distanceAccumulated + segmentDistance < requiredSpacing
             THEN [st EXCEPT !.distanceAccumulated = @ + segmentDistance]
             ELSE EmitSegments(st.segments, st.distanceAccumulated + segmentDistance,
                               requiredSpacing, history[i - 1], history[i],
                               segmentDistance, currentLength)

\* the passes of the for loop on history[i..last]
RECURSIVE WalkBlock(_, _, _, _, _)
WalkBlock(history, i, last, st, currentLength) ==
    IF i > last THEN st
    ELSE WalkBlock(history, i + 1, last, WalkStep(history, i, st, currentLength),
                   currentLength)

\* the for loop of calculateBodySegments, from history index i (1-based) on,
\* taken twenty passes at a time
RECURSIVE WalkHistory(_, _, _, _)
WalkHistory(history, i, st, currentLength) ==
    IF i > Len(history) \/ Len(st.segments) >= currentLength THEN st.segments
    ELSE WalkHistory(history, i + 20,
                     WalkBlock(history, i, Min(i + 19, Len(history)), st, currentLength),
                     currentLength)

\* calculateBodySegments
calculateBodySegments(player) ==
    IF ~player.alive THEN <<>>
    ELSE IF Len(player.positionHistory) < 2 THEN <<>>
    ELSE WalkHistory(player.positionHistory, 2,
                     [segments |-> <<>>, distanceAccumulated |-> 0],
                     Min(Len(player.bodySegments) + 1, player.targetLength))

\* no killer, no player
None == "none"

\* spawnFoodInRoom with a given position and value
spawnFoodInRoom(rm, x, y, value) ==
    [rm EXCEPT !.food = (rm.foodIdCounter :> [x |-> x, y |-> y, value |-> value]) @@ rm.food,
               !.foodIdCounter = rm.foodIdCounter + 1]

\* the while loop of handleBoostDropInRoom; the accumulator counts
\* thousandths of a segment.  The increments are all 0.1, and in doubles ten
\* of them sum to 0.9999999999999999: the accumulator passes 1 at the
\* eleventh, which is what the strict comparison on the exact sum gives
RECURSIVE BoostDropLoop(_, _)
BoostDropLoop(rm, playerId) ==
    LET player == rm.players[playerId]
    IN  IF player.boostDropAccumulator > 1000 /\ player.targetLength > MIN_BODY_LENGTH
        THEN LET shrunk == [rm EXCEPT
                              !.players[playerId].boostDropAccumulator =
                                    player.boostDropAccumulator - 1000,
                              !.players[playerId].targetLength = player.targetLength - 1]
                 n == Len(player.bodySegments)
             IN  BoostDropLoop(
                    IF n > 0
                    THEN spawnFoodInRoom(shrunk, player.bodySegments[n].x,
                                         player.bodySegments[n].y, DROPPED_PELLET_VALUE)
                    ELSE shrunk,
                    playerId)
        ELSE rm

\* handleBoostDropInRoom
handleBoostDropInRoom(rm, playerId, deltaMs) ==
    LET player == rm.players[playerId]
    IN  IF ~player.alive THEN rm
        ELSE IF ~player.input.boosting \/ player.targetLength <= MIN_BODY_LENGTH THEN rm
        ELSE BoostDropLoop(
                [rm EXCEPT !.players[playerId].boostDropAccumulator =
                               player.boostDropAccumulator + BOOST_DROP_RATE * deltaMs],
                playerId)

\* isAtWorldBorder
isAtWorldBorder_Open(player) ==
    LET margin == PLAYER_CONFIG_RADIUS \div 2
    IN  \/ player.x < margin
        \/ player.x > WORLD_WIDTH - margin
        \/ player.y < margin
        \/ player.y > WORLD_HEIGHT - margin

isAtWorldBorder(player) ==
    LET margin == PLAYER_CONFIG_RADIUS \div 2
    IN  \/ player.x <= margin
        \/ player.x >= WORLD_WIDTH - margin
        \/ player.y <= margin
        \/ player.y >= WORLD_HEIGHT - margin

\* deaths.some(d => d.player.id === id)
MarkedForDeath(ds, id) == \E k \in 1..Len(ds) : ds[k].player = id

\* the head-to-head branch with strict comparisons: a tie kills nobody
HeadToHeadDeaths_Strict(bothDie, player, other) ==
    LET playerDies == [player |-> player.id, cause |-> "head_to_head", killer |-> other.id]
        otherDies == [player |-> other.id, cause |-> "head_to_head", killer |-> player.id]
        playerSize == Len(player.bodySegments)
        otherSize == Len(other.bodySegments)
    IN  IF bothDie THEN <<playerDies, otherDies>>
        ELSE (IF playerSize < otherSize THEN <<playerDies>> ELSE <<>>)
             \o (IF otherSize < playerSize THEN <<otherDies>> ELSE <<>>)

\* the head-to-head branch with the comparisons turned round: the longer dies
HeadToHeadDeaths_LongerDies(bothDie, player, other) ==
    LET playerDies == [player |-> player.id, cause |-> "head_to_head", killer |-> other.id]
        otherDies == [player |-> other.id, cause |-> "head_to_head", killer |-> player.id]
        playerSize == Len(player.bodySegments)
        otherSize == Len(other.bodySegments)
    IN  IF bothDie THEN <<playerDies, otherDies>>
        ELSE (IF playerSize >= otherSize THEN <<playerDies>> ELSE <<>>)
             \o (IF otherSize >= playerSize THEN <<otherDies>> ELSE <<>>)

\* the head-to-head branch that never takes the both-die mode
HeadToHeadDeaths_IgnoresMode(bothDie, player, other) ==
    LET playerDies == [player |-> player.id, cause |-> "head_to_head", killer |-> other.id]
        otherDies == [player |-> other.id, cause |-> "head_to_head", killer |-> player.id]
        playerSize == Len(player.bodySegments)
        otherSize == Len(other.bodySegments)
    IN  (IF playerSize <= otherSize THEN <<playerDies>> ELSE <<>>)
        \o (IF otherSize <= playerSize THEN <<otherDies>> ELSE <<>>)

\* the head-to-head branch of checkPlayerCollisionsInRoom: the deaths it pushes
HeadToHeadDeaths(bothDie, player, other) ==
    LET playerDies == [player |-> player.id, cause |-> "head_to_head", killer |-> other.id]
        otherDies == [player |-> other.id, cause |-> "head_to_head", killer |-> player.id]
        playerSize == Len(player.bodySegments)
        otherSize == Len(other.bodySegments)
    IN  IF bothDie THEN <<playerDies, otherDies>>
        ELSE (IF playerSize <= otherSize THEN <<playerDies>> ELSE <<>>)
             \o (IF otherSize <= playerSize THEN <<otherDies>> ELSE <<>>)

\* the head-versus-body loop: the head of player is on a segment of other
HitsBody(player, other) ==
    \E k \in 1..Len(other.bodySegments) :
        DistLT(player.x - other.bodySegments[k].x, player.y - other.bodySegments[k].y,
               PLAYER_CONFIG_RADIUS + BODY_SEGMENT_HITBOX)

\* the inner loop of checkPlayerCollisionsInRoom over the other players,
\* from index j of the array on
RECURSIVE CheckAgainstOthers(_, _, _, _, _, _)
CheckAgainstOthers(rm, bothDie, arr, ds, playerId, j) ==
    IF j > Len(arr) THEN ds
    ELSE IF arr[j] = playerId THEN CheckAgainstOthers(rm, bothDie, arr, ds, playerId, j + 1)
    ELSE IF MarkedForDeath(ds, playerId) THEN ds
    ELSE LET player == rm.players[playerId]
             other == rm.players[arr[j]]
         IN  IF DistLT(player.x - other.x, player.y - other.y, PLAYER_CONFIG_RADIUS * 2)
             THEN CheckAgainstOthers(rm, bothDie, arr,
                        ds \o HeadToHeadDeaths(bothDie, player, other), playerId, j + 1)
             ELSE IF HitsBody(player, other)
             THEN CheckAgainstOthers(rm, bothDie, arr,
                        Append(ds, [player |-> playerId, cause |-> "head_collision",
                                    killer |-> other.id]),
                        playerId, j + 1)
             ELSE CheckAgainstOthers(rm, bothDie, arr, ds, playerId, j + 1)

\* the outer loop of checkPlayerCollisionsInRoom, from index i of the array on
RECURSIVE CheckPlayers(_, _, _, _, _)
CheckPlayers(rm, bothDie, arr, ds, i) ==
    IF i > Len(arr) THEN ds
    ELSE IF MarkedForDeath(ds, arr[i]) THEN CheckPlayers(rm, bothDie, arr, ds, i + 1)
    ELSE IF isAtWorldBorder(rm.players[arr[i]])
    THEN CheckPlayers(rm, bothDie, arr,
             Append(ds, [player |-> arr[i], cause |-> "world_border", killer |-> None]),
             i + 1)
    ELSE CheckPlayers(rm, bothDie, arr,
             CheckAgainstOthers(rm, bothDie, arr, ds, arr[i], 1), i + 1)

\* the elements of a sequence that satisfy Test, in order
RECURSIVE SelectIds(_, _)
SelectIds(ids, keep) ==
    IF ids = <<>> THEN <<>>
    ELSE (IF Head(ids) \in keep THEN <<Head(ids)>> ELSE <<>>) \o SelectIds(Tail(ids), keep)

\* the array without the filter on alive
AlivePlayersArray_Unfiltered(rm) == rm.playerOrder

\* Array.from(room.players.values()).filter(p => p.alive), as ids
AlivePlayersArray(rm) ==
    SelectIds(rm.playerOrder, {id \in DOMAIN rm.players : rm.players[id].alive})

\* the deaths checkPlayerCollisionsInRoom collects before it processes them
DetectDeaths(rm, bothDie) == CheckPlayers(rm, bothDie, AlivePlayersArray(rm), <<>>, 1)

\* the body-segment drops of killPlayerInRoom, from segment k on
RECURSIVE DropSegments(_, _, _)
DropSegments(rm, segments, k) ==
    IF k > Len(segments) THEN rm
    ELSE DropSegments(spawnFoodInRoom(rm, segments[k].x, segments[k].y, DEATH_DROP_VALUE),
                      segments, k + 1)

\* the head drops of killPlayerInRoom, from drop i (0-based) on, 20 pixels out
RECURSIVE DropAtHead(_, _, _, _)
DropAtHead(rm, player, headDrops, i) ==
    IF i >= headDrops THEN rm
    ELSE LET angle == (i * 2 * PI) \div headDrops
             dist == 2000
         IN  DropAtHead(
                spawnFoodInRoom(rm, player.x + Trunc(Cos(angle) * dist, 1000),
                                player.y + Trunc(Sin(angle) * dist, 1000), DEATH_DROP_VALUE),
                player, headDrops, i + 1)

\* killPlayerInRoom without the cap on the drops at the head
killPlayerInRoom_UncappedBonus(w, time, playerId, cause, killerId) ==
    LET player == w.room.players[playerId]
    IN  IF ~player.alive THEN w
        ELSE
        LET marked == [w.room EXCEPT
                          !.players[playerId].alive = FALSE,
                          !.players[playerId].respawnTime = time + RESPAWN_DELAY]
            awarded == IF killerId # None /\ killerId # playerId
                       THEN [marked EXCEPT !.players[killerId].kills =
                                               marked.players[killerId].kills + 1]
                       ELSE marked
            headDrops == player.score \div 10 + 1
            dropped == DropAtHead(DropSegments(awarded, player.bodySegments, 1),
                                  player, headDrops, 0)
            cleared == [dropped EXCEPT !.players[playerId].bodySegments = <<>>,
                                       !.players[playerId].targetLength = 0,
                                       !.players[playerId].positionHistory = <<>>]
            deathEvent == [ event |-> "playerDied",
                            playerId |-> playerId,
                            cause |-> cause,
                            killerId |-> killerId,
                            x |-> player.x,
                            y |-> player.y,
                            score |-> player.score,
                            foodDropped |-> Len(player.bodySegments) + headDrops ]
        IN  [room |-> cleared, emits |-> Append(w.emits, deathEvent)]

\* killPlayerInRoom without the return for a player already dead
killPlayerInRoom_AgainWhenDead(w, time, playerId, cause, killerId) ==
    LET player == w.room.players[playerId]
    IN
        LET marked == [w.room EXCEPT
                          !.players[playerId].alive = FALSE,
                          !.players[playerId].respawnTime = time + RESPAWN_DELAY]
            awarded == IF killerId # None /\ killerId # playerId
                       THEN [marked EXCEPT !.players[killerId].kills =
                                               marked.players[killerId].kills + 1]
                       ELSE marked
            headDrops == Min(5, player.score \div 10 + 1)
            dropped == DropAtHead(DropSegments(awarded, player.bodySegments, 1),
                                  player, headDrops, 0)
            cleared == [dropped EXCEPT !.players[playerId].bodySegments = <<>>,
                                       !.players[playerId].targetLength = 0,
                                       !.players[playerId].positionHistory = <<>>]
            deathEvent == [ event |-> "playerDied",
                            playerId |-> playerId,
                            cause |-> cause,
                            killerId |-> killerId,
                            x |-> player.x,
                            y |-> player.y,
                            score |-> player.score,
                            foodDropped |-> Len(player.bodySegments) + headDrops ]
        IN  [room |-> cleared, emits |-> Append(w.emits, deathEvent)]

\* killPlayerInRoom on the pair of the room and the events emitted so far
killPlayerInRoom(w, time, playerId, cause, killerId) ==
    LET player == w.room.players[playerId]
    IN  IF ~player.alive THEN w
        ELSE
        LET marked == [w.room EXCEPT
                          !.players[playerId].alive = FALSE,
                          !.players[playerId].respawnTime = time + RESPAWN_DELAY]
            awarded == IF killerId # None /\ killerId # playerId
                       THEN [marked EXCEPT !.players[killerId].kills =
                                               marked.players[killerId].kills + 1]
                       ELSE marked
            headDrops == Min(5, player.score \div 10 + 1)
            dropped == DropAtHead(DropSegments(awarded, player.bodySegments, 1),
                                  player, headDrops, 0)
            cleared == [dropped EXCEPT !.players[playerId].bodySegments = <<>>,
                                       !.players[playerId].targetLength = 0,
                                       !.players[playerId].positionHistory = <<>>]
            deathEvent == [ event |-> "playerDied",
                            playerId |-> playerId,
                            cause |-> cause,
                            killerId |-> killerId,
                            x |-> player.x,
                            y |-> player.y,
                            score |-> player.score,
                            foodDropped |-> Len(player.bodySegments) + headDrops ]
        IN  [room |-> cleared, emits |-> Append(w.emits, deathEvent)]

\* the deaths loop at the end of checkPlayerCollisionsInRoom, from entry k on
RECURSIVE ProcessDeaths(_, _, _, _)
ProcessDeaths(w, time, ds, k) ==
    IF k > Len(ds) THEN w
    ELSE ProcessDeaths(killPlayerInRoom(w, time, ds[k].player, ds[k].cause, ds[k].killer),
                       time, ds, k + 1)

\* checkPlayerCollisionsInRoom
checkPlayerCollisionsInRoom(w, time, bothDie) ==
    ProcessDeaths(w, time, DetectDeaths(w.room, bothDie), 1)

\* the players revived only once the time is past their respawnTime
Respawning_Late(rm, time) ==
    { id \in DOMAIN rm.players :
        /\ ~rm.players[id].alive
        /\ rm.players[id].respawnTime > 0
        /\ time > rm.players[id].respawnTime }

\* the players checkRespawnsInRoom revives at the given time
Respawning(rm, time) ==
    { id \in DOMAIN rm.players :
        /\ ~rm.players[id].alive
        /\ rm.players[id].respawnTime > 0
        /\ time >= rm.players[id].respawnTime }

\* checkRespawnsInRoom from index k of the Map order on; draw gives each
\* revived player its random place and heading
RECURSIVE checkRespawnsInRoom(_, _, _, _)
checkRespawnsInRoom(w, time, draw, k) ==
    IF k > Len(w.room.playerOrder) THEN w
    ELSE LET id == w.room.playerOrder[k]
         IN  IF id \in Respawning(w.room, time)
             THEN checkRespawnsInRoom(
                    [room |-> [w.room EXCEPT !.players[id] =
                                   respawnPlayer(w.room.players[id], draw[id][1], draw[id][2])],
                     emits |-> Append(w.emits, [event |-> "playerRespawned", playerId |-> id])],
                    time, draw, k + 1)
             ELSE checkRespawnsInRoom(w, time, draw, k + 1)

\* the loop of gameLoop over the players, from index k of the Map order on
RECURSIVE UpdatePlayers(_, _, _)
UpdatePlayers(rm, deltaMs, k) ==
    IF k > Len(rm.playerOrder) THEN rm
    ELSE LET id == rm.playerOrder[k]
         IN  IF rm.players[id].alive
             THEN LET moved == updatePositionHistory(
                                   updatePlayerMovement(rm.players[id], deltaMs))
                      shaped == [moved EXCEPT !.bodySegments = calculateBodySegments(moved)]
                  IN  UpdatePlayers(
                         handleBoostDropInRoom([rm EXCEPT !.players[id] = shaped], id, deltaMs),
                         deltaMs, k + 1)
             ELSE UpdatePlayers(rm, deltaMs, k + 1)

\* the pull of one player on one food item in updateFoodMagnetismInRoom
Attract(player, item, deltaMs) ==
    LET bodyCount == Len(player.bodySegments)
        sizePullMultiplier == 1000 + Min(bodyCount * 75, 1500)
        magnetRadius == (FOOD_MAGNET_RADIUS * (1000 + Min(bodyCount * 20, 400))) \div 1000
        dx == player.x - item.x
        dy == player.y - item.y
    IN  IF ~DistLT(dx, dy, magnetRadius) \/ (dx = 0 /\ dy = 0) THEN item
        ELSE LET distance == Hypot(dx, dy)
                 pullFactor == 1000 - (distance * 1000) \div magnetRadius
                 pullStrength ==
                    (((((FOOD_MAGNET_STRENGTH * pullFactor) \div 1000) * pullFactor) \div 1000)
                        * sizePullMultiplier) \div 1000
             IN  IF distance = 0 THEN item
                 ELSE [item EXCEPT
                         !.x = item.x + Trunc(Trunc(dx * pullStrength, distance) * deltaMs, 1000),
                         !.y = item.y + Trunc(Trunc(dy * pullStrength, distance) * deltaMs, 1000)]

\* updateFoodMagnetismInRoom in which the dead pull food as well
RECURSIVE updateFoodMagnetismInRoom_PullsDead(_, _, _)
updateFoodMagnetismInRoom_PullsDead(rm, deltaMs, k) ==
    IF k > Len(rm.playerOrder) THEN rm
    ELSE LET player == rm.players[rm.playerOrder[k]]
         IN  updateFoodMagnetismInRoom_PullsDead(
                    [rm EXCEPT !.food = [id \in DOMAIN rm.food |->
                                            Attract(player, rm.food[id], deltaMs)]],
                    deltaMs, k + 1)

\* updateFoodMagnetismInRoom, from index k of the Map order on
RECURSIVE updateFoodMagnetismInRoom(_, _, _)
updateFoodMagnetismInRoom(rm, deltaMs, k) ==
    IF k > Len(rm.playerOrder) THEN rm
    ELSE LET player == rm.players[rm.playerOrder[k]]
         IN  IF ~player.alive THEN updateFoodMagnetismInRoom(rm, deltaMs, k + 1)
             ELSE updateFoodMagnetismInRoom(
                    [rm EXCEPT !.food = [id \in DOMAIN rm.food |->
                                            Attract(player, rm.food[id], deltaMs)]],
                    deltaMs, k + 1)

\* the ids of a set of food items in the order the Map holds them
RECURSIVE Ascending(_)
Ascending(ids) ==
    IF ids = {} THEN <<>>
    ELSE LET first == CHOOSE id \in ids : \A other \in ids : id <= other
         IN  <<first>> \o Ascending(ids \ {first})

RECURSIVE SumValues(_, _)
SumValues(food, ids) ==
    IF ids = <<>> THEN 0 ELSE food[Head(ids)].value + SumValues(food, Tail(ids))

\* checkFoodCollisionsInRoom that leaves the collected food in the room
RECURSIVE checkFoodCollisionsInRoom_KeepsFood(_, _)
checkFoodCollisionsInRoom_KeepsFood(w, k) ==
    IF k > Len(w.room.playerOrder) THEN w
    ELSE LET playerId == w.room.playerOrder[k]
             player == w.room.players[playerId]
             collectionRadius == PLAYER_CONFIG_RADIUS + FOOD_RADIUS
             foodToRemove ==
                Ascending({ id \in DOMAIN w.room.food :
                              DistLT(player.x - w.room.food[id].x,
                                     player.y - w.room.food[id].y, collectionRadius) })
             eaten == SumValues(w.room.food, foodToRemove)
         IN  IF ~player.alive THEN checkFoodCollisionsInRoom_KeepsFood(w, k + 1)
             ELSE checkFoodCollisionsInRoom_KeepsFood(
                    [room |-> [w.room EXCEPT
                                 !.players[playerId].score = player.score + eaten,
                                 !.players[playerId].targetLength =
                                       player.targetLength + eaten * GROWTH_PER_FOOD],
                     emits |-> w.emits \o
                               [i \in 1..Len(foodToRemove) |->
                                   [event |-> "foodCollected", foodId |-> foodToRemove[i],
                                    playerId |-> playerId]]],
                    k + 1)

\* checkFoodCollisionsInRoom, from index k of the Map order on
RECURSIVE checkFoodCollisionsInRoom(_, _)
checkFoodCollisionsInRoom(w, k) ==
    IF k > Len(w.room.playerOrder) THEN w
    ELSE LET playerId == w.room.playerOrder[k]
             player == w.room.players[playerId]
             collectionRadius == PLAYER_CONFIG_RADIUS + FOOD_RADIUS
             foodToRemove ==
                Ascending({ id \in DOMAIN w.room.food :
                              DistLT(player.x - w.room.food[id].x,
                                     player.y - w.room.food[id].y, collectionRadius) })
             eaten == SumValues(w.room.food, foodToRemove)
         IN  IF ~player.alive THEN checkFoodCollisionsInRoom(w, k + 1)
             ELSE checkFoodCollisionsInRoom(
                    [room |-> [w.room EXCEPT
                                 !.players[playerId].score = player.score + eaten,
                                 !.players[playerId].targetLength =
                                       player.targetLength + eaten * GROWTH_PER_FOOD,
                                 !.food = [id \in DOMAIN w.room.food \ {foodToRemove[i] : i \in 1..Len(foodToRemove)}
                                             |-> w.room.food[id]]],
                     emits |-> w.emits \o
                               [i \in 1..Len(foodToRemove) |->
                                   [event |-> "foodCollected", foodId |-> foodToRemove[i],
                                    playerId |-> playerId]]],
                    k + 1)

\* where findSpawnLocationInRoom can place food (Math.random)
FoodSpawnPoints == { [x |-> 100000, y |-> 500000], [x |-> 20000, y |-> 300000] }

\* the random draws of one maintainFoodCountInRoom call
FoodDraws ==
    [ burst : BOOLEAN, cluster : BOOLEAN, clusterSize : {CLUSTER_SIZE_MIN, CLUSTER_SIZE_MAX},
      golden : BOOLEAN, at : FoodSpawnPoints ]

\* spawnFoodInRoom without a value: a natural spawn, golden or not
SpawnNaturalFood(rm, x, y, golden) ==
    spawnFoodInRoom(rm, x, y,
                    IF golden THEN FOOD_BASE_VALUE * GOLDEN_MULTIPLIER ELSE FOOD_BASE_VALUE)

\* count items on a circle around a centre, from item i (0-based) on; the
\* callers clamp or not
RECURSIVE SpawnRing(_, _, _, _, _, _, _)
SpawnRing(rm, centre, dist, count, golden, clamped, i) ==
    IF i >= count THEN rm
    ELSE LET angle == (i * 2 * PI) \div count
             x == centre.x + Trunc(Cos(angle) * dist, 1000)
             y == centre.y + Trunc(Sin(angle) * dist, 1000)
         IN  SpawnRing(
                SpawnNaturalFood(rm,
                    IF clamped THEN clamp(x, FOOD_PADDING, WORLD_WIDTH - FOOD_PADDING) ELSE x,
                    IF clamped THEN clamp(y, FOOD_PADDING, WORLD_HEIGHT - FOOD_PADDING) ELSE y,
                    golden),
                centre, dist, count, golden, clamped, i + 1)

\* spawnFoodClusterInRoom
spawnFoodClusterInRoom(rm, centre, draw) ==
    SpawnRing(rm, centre, CLUSTER_SPREAD \div 2, draw.clusterSize, draw.golden, TRUE, 0)

\* the regular spawning loop of maintainFoodCountInRoom, from spawn i (0-based) on
RECURSIVE RegularSpawn(_, _, _, _, _)
RegularSpawn(rm, currentCount, toSpawn, draw, i) ==
    IF i >= toSpawn THEN rm
    ELSE RegularSpawn(
            IF draw.cluster /\ currentCount + 5 < MAX_FOOD_COUNT
            THEN spawnFoodClusterInRoom(rm, draw.at, draw)
            ELSE SpawnNaturalFood(rm, draw.at.x, draw.at.y, draw.golden),
            currentCount, toSpawn, draw, i + 1)

\* maintainFoodCountInRoom
maintainFoodCountInRoom(rm, draw) ==
    LET currentCount == Cardinality(DOMAIN rm.food)
        activePlayers == Cardinality({id \in DOMAIN rm.players : rm.players[id].alive})
        dynamicSpawnRate == FOOD_SPAWN_RATE + activePlayers \div 2
    IN  IF currentCount >= MAX_FOOD_COUNT THEN rm
        ELSE IF draw.burst /\ currentCount * 10 < MAX_FOOD_COUNT * 8
        THEN SpawnRing(rm, draw.at, BURST_SPREAD \div 2, BURST_SIZE, draw.golden, FALSE, 0)
        ELSE RegularSpawn(rm, currentCount,
                          Min(dynamicSpawnRate, MAX_FOOD_COUNT - currentCount), draw, 0)

\* entries.sort((a, b) => b.score - a.score): a stable sort, highest score first
RECURSIVE SortByScore(_)
SortByScore(entries) ==
    IF entries = <<>> THEN <<>>
    ELSE LET best == CHOOSE i \in 1..Len(entries) :
                        /\ \A j \in 1..Len(entries) : entries[j].score <= entries[i].score
                        /\ \A j \in 1..(i - 1) : entries[j].score < entries[i].score
         IN  <<entries[best]>> \o
             SortByScore(SubSeq(entries, 1, best - 1) \o SubSeq(entries, best + 1, Len(entries)))

\* buildScoreboardForRoom
buildScoreboardForRoom(rm) ==
    LET joined == SelectIds(rm.playerOrder,
                            {id \in DOMAIN rm.players : rm.players[id].hasJoined})
        entries == [ k \in 1..Len(joined) |->
                        [ id |-> joined[k],
                          score |-> rm.players[joined[k]].score,
                          kills |-> rm.players[joined[k]].kills,
                          bodyLength |-> Len(rm.players[joined[k]].bodySegments) ] ]
        sorted == SortByScore(entries)
    IN  SubSeq(sorted, 1, Min(Len(sorted), SCOREBOARD_SIZE))

\* buildGameSnapshotForRoom without its hasJoined test
buildGameSnapshotForRoom_Everyone(rm, time) ==
    [ players |-> [ id \in DOMAIN rm.players |->
                      [ id |-> id,
                        x |-> rm.players[id].x,
                        y |-> rm.players[id].y,
                        angle |-> rm.players[id].angle,
                        speed |-> rm.players[id].speed,
                        score |-> rm.players[id].score,
                        bodySegments |-> rm.players[id].bodySegments,
                        targetLength |-> rm.players[id].targetLength,
                        lastProcessedInput |-> rm.players[id].lastProcessedInput,
                        alive |-> rm.players[id].alive,
                        kills |-> rm.players[id].kills ] ],
      food |-> rm.food,
      scoreboard |-> buildScoreboardForRoom(rm),
      serverTime |-> time,
      tick |-> rm.currentTick ]

\* buildGameSnapshotForRoom
buildGameSnapshotForRoom(rm, time) ==
    [ players |-> [ id \in {p \in DOMAIN rm.players : rm.players[p].hasJoined} |->
                      [ id |-> id,
                        x |-> rm.players[id].x,
                        y |-> rm.players[id].y,
                        angle |-> rm.players[id].angle,
                        speed |-> rm.players[id].speed,
                        score |-> rm.players[id].score,
                        bodySegments |-> rm.players[id].bodySegments,
                        targetLength |-> rm.players[id].targetLength,
                        lastProcessedInput |-> rm.players[id].lastProcessedInput,
                        alive |-> rm.players[id].alive,
                        kills |-> rm.players[id].kills ] ],
      food |-> rm.food,
      scoreboard |-> buildScoreboardForRoom(rm),
      serverTime |-> time,
      tick |-> rm.currentTick ]

\* the food spawnInitialFood leaves in a new room: the scattered items on a
\* grid, one of them just south of the spawn area, and the clusters as rings
InitialFood ==
    [ id \in 0..(INITIAL_FOOD_COUNT + CLUSTER_COUNT * CLUSTER_SIZE - 1) |->
        IF id = 0 THEN [x |-> 300000, y |-> 309000, value |-> 1]
        ELSE IF id < INITIAL_FOOD_COUNT
        THEN [ x |-> 50000 + (id % 10) * 50000,
               y |-> 50000 + (id \div 10) * 100000,
               value |-> 1 ]
        ELSE LET c == (id - INITIAL_FOOD_COUNT) \div CLUSTER_SIZE
                 i == (id - INITIAL_FOOD_COUNT) % CLUSTER_SIZE
                 angle == (i * 2 * PI) \div CLUSTER_SIZE
             IN  [ x |-> 100000 + c * 50000 + Trunc(Cos(angle) * 10000, 1000),
                   y |-> 100000 + Trunc(Sin(angle) * 10000, 1000),
                   value |-> 1 + (i % 2) ] ]

\* new GameRoom
NewGameRoom ==
    [ players |-> <<>>,
      playerOrder |-> <<>>,
      food |-> InitialFood,
      currentTick |-> 0,
      foodIdCounter |-> INITIAL_FOOD_COUNT + CLUSTER_COUNT * CLUSTER_SIZE ]

----------------------------------------------------------------------------
(* Client: ClientPrediction and the GameScene methods that drive it *)

VARIABLES
    clientPrediction,   \* the ClientPrediction object of the scene
    isAlive,            \* GameScene.isAlive
    lantern,            \* position last given to lantern.setPosition
    emitted,            \* the playerInput message last emitted on the socket
    gameState,          \* the last gameState snapshot handled: its tick and own PlayerState
    reconciled,         \* the branch reconcile took for that snapshot
    snapshots,          \* SnapshotInterpolation.snapshots: of each snapshot its tick, its
                        \* serverTime and the players other than the scene's own
    rendered            \* what updateOtherPlayers last got from getInterpolatedPlayers

clientVars == <<clientPrediction, isAlive, lantern, emitted, gameState, reconciled,
                snapshots, rendered>>


\* the inputs a frame can read: mouseX, mouseY (keyboard or pointer) and isBoosting
FrameInputs ==
    { [mouseX |-> 0, mouseY |-> 0, boosting |-> FALSE],
      [mouseX |-> 100, mouseY |-> 0, boosting |-> FALSE],
      [mouseX |-> 0, mouseY |-> 100, boosting |-> TRUE] }

\* frame times in ms
FrameDeltas == {16}

\* own states a snapshot can carry
ServerStates ==
    [ lastProcessedInput : 0..MaxSequence,
      x : {100000, 100300, 110000},
      y : {100000},
      angle : {0},
      speed : {BASE_SPEED},
      alive : {TRUE} ]
    \cup
    [ lastProcessedInput : {0}, x : {100000}, y : {100000}, angle : {0},
      speed : {0}, alive : {FALSE} ]

\* new ClientPrediction(startX, startY, 0)
NewClientPrediction(initialX, initialY, initialAngle) ==
    [ inputHistory |-> <<>>,
      inputSequence |-> 0,
      x |-> initialX,
      y |-> initialY,
      currentAngle |-> initialAngle,
      targetAngle |-> initialAngle,
      currentSpeed |-> 0,
      correctionX |-> 0,
      correctionY |-> 0 ]

\* ClientPrediction.applyCorrection
applyCorrection(cp) ==
    LET applyX == Trunc(cp.correctionX * RECONCILIATION_SMOOTHING, 100)
        applyY == Trunc(cp.correctionY * RECONCILIATION_SMOOTHING, 100)
        restX == cp.correctionX - applyX
        restY == cp.correctionY - applyY
    IN  [cp EXCEPT !.x = cp.x + applyX,
                   !.y = cp.y + applyY,
                   !.correctionX = IF Abs(restX) < CORRECTION_EPSILON THEN 0 ELSE restX,
                   !.correctionY = IF Abs(restY) < CORRECTION_EPSILON THEN 0 ELSE restY]

\* the movement part of ClientPrediction.processInput: the kinematic fields
\* after one input
PredictMove(cp, mouseX, mouseY, boosting, deltaMs) ==
    LET distance == Hypot(mouseX, mouseY)
        steering == distance > DEADZONE
        targetAngle == IF steering THEN Atan2(mouseY, mouseX) ELSE cp.targetAngle
        currentAngle == IF steering
                        THEN Turn(cp.currentAngle, targetAngle, TURN_SPEED * deltaMs)
                        ELSE cp.currentAngle
        baseSpeed == (BASE_SPEED * Min(distance, 100)) \div 100
        currentSpeed == IF steering
                        THEN (IF boosting THEN (baseSpeed * BOOST_MULTIPLIER) \div 10
                              ELSE baseSpeed)
                        ELSE Trunc(cp.currentSpeed * DRAG, 100)
        velocityX == Trunc(Cos(currentAngle) * currentSpeed, 1000)
        velocityY == Trunc(Sin(currentAngle) * currentSpeed, 1000)
    IN  [cp EXCEPT !.targetAngle = targetAngle,
                   !.currentAngle = currentAngle,
                   !.currentSpeed = currentSpeed,
                   !.x = clamp(cp.x + Trunc(velocityX * deltaMs, 1000),
                               RADIUS, CLIENT_WORLD_WIDTH - RADIUS),
                   !.y = clamp(cp.y + Trunc(velocityY * deltaMs, 1000),
                               RADIUS, CLIENT_WORLD_HEIGHT - RADIUS)]

\* a StoredInput: the input and the state predicted for it
StoredInput(cp, sequence, mouseX, mouseY, boosting) ==
    [ input |-> [sequence |-> sequence, mouseX |-> mouseX, mouseY |-> mouseY,
                 boosting |-> boosting],
      predictedX |-> cp.x,
      predictedY |-> cp.y,
      predictedAngle |-> cp.currentAngle,
      predictedSpeed |-> cp.currentSpeed ]

\* the while loop of processInput that drops the oldest inputs
RECURSIVE TrimHistory(_)
TrimHistory(h) ==
    IF Len(h) > INPUT_BUFFER_SIZE THEN TrimHistory(Tail(h)) ELSE h

\* processInput without the loop that drops the oldest inputs
processInput_NoTrim(cp, mouseX, mouseY, boosting, deltaMs, sequence) ==
    LET moved == PredictMove(cp, mouseX, mouseY, boosting, deltaMs)
        stored == StoredInput(moved, sequence, mouseX, mouseY, boosting)
    IN  applyCorrection([moved EXCEPT !.inputHistory = Append(cp.inputHistory, stored)])

\* ClientPrediction.processInput: the object after the call
processInput(cp, mouseX, mouseY, boosting, deltaMs, sequence) ==
    LET moved == PredictMove(cp, mouseX, mouseY, boosting, deltaMs)
        stored == StoredInput(moved, sequence, mouseX, mouseY, boosting)
    IN  applyCorrection(
            [moved EXCEPT !.inputHistory = TrimHistory(Append(cp.inputHistory, stored))])

\* the value processInput returns, read from the object after the call
Predicted(cp) ==
    [ x |-> cp.x + cp.correctionX,
      y |-> cp.y + cp.correctionY,
      angle |-> cp.currentAngle,
      speed |-> cp.currentSpeed ]

\* ClientPrediction.setPosition
setPosition(cp, px, py, angle) ==
    [cp EXCEPT !.x = px, !.y = py, !.currentAngle = angle, !.targetAngle = angle,
               !.correctionX = 0, !.correctionY = 0]

\* the body of the loop of replayInputs: the kinematic fields after
\* simulating one stored input
ReplayMove(cp, mouseX, mouseY, boosting, deltaMs) ==
    LET distance == Hypot(mouseX, mouseY)
        steering == distance > DEADZONE
        targetAngle == IF steering THEN Atan2(mouseY, mouseX) ELSE cp.targetAngle
        currentAngle == IF steering
                        THEN Turn(cp.currentAngle, targetAngle, TURN_SPEED * deltaMs)
                        ELSE cp.currentAngle
        baseSpeed == (BASE_SPEED * Min(distance, 100)) \div 100
        currentSpeed == IF steering
                        THEN (IF boosting THEN (baseSpeed * BOOST_MULTIPLIER) \div 10
                              ELSE baseSpeed)
                        ELSE Trunc(cp.currentSpeed * DRAG, 100)
        velocityX == Trunc(Cos(currentAngle) * currentSpeed, 1000)
        velocityY == Trunc(Sin(currentAngle) * currentSpeed, 1000)
    IN  [cp EXCEPT !.targetAngle = targetAngle,
                   !.currentAngle = currentAngle,
                   !.currentSpeed = currentSpeed,
                   !.x = clamp(cp.x + Trunc(velocityX * deltaMs, 1000),
                               RADIUS, CLIENT_WORLD_WIDTH - RADIUS),
                   !.y = clamp(cp.y + Trunc(velocityY * deltaMs, 1000),
                               RADIUS, CLIENT_WORLD_HEIGHT - RADIUS)]

\* replayInputs from the i-th stored input on
RECURSIVE ReplayFrom(_, _)
ReplayFrom(cp, i) ==
    IF i > Len(cp.inputHistory) THEN cp
    ELSE LET stored == cp.inputHistory[i]
             tickDelta == 1000 \div SERVER_TICK_RATE
             moved == ReplayMove(cp, stored.input.mouseX, stored.input.mouseY,
                                 stored.input.boosting, tickDelta)
         IN  ReplayFrom(
                 [moved EXCEPT !.inputHistory[i] =
                     [stored EXCEPT !.predictedX = moved.x,
                                    !.predictedY = moved.y,
                                    !.predictedAngle = moved.currentAngle,
                                    !.predictedSpeed = moved.currentSpeed]],
                 i + 1)

\* a replay that starts one input late
replayInputs_SkipFirst(cp) == ReplayFrom(cp, 2)

\* ClientPrediction.replayInputs
replayInputs(cp) == ReplayFrom(cp, 1)

\* inputHistory.findIndex(stored => stored.input.sequence === lastProcessed),
\* 1-based; 0 when there is none
FindProcessedIndex(h, lastProcessed) ==
    IF \E i \in 1..Len(h) : h[i].input.sequence = lastProcessed
    THEN CHOOSE i \in 1..Len(h) :
            /\ h[i].input.sequence = lastProcessed
            /\ \A j \in 1..(i - 1) : h[j].input.sequence # lastProcessed
    ELSE 0

\* a splice that keeps the acknowledged input
SpliceProcessed_KeepAcked(h, processedIndex) == SubSeq(h, processedIndex, Len(h))

\* inputHistory.splice(0, processedIndex + 1)
SpliceProcessed(h, processedIndex) == SubSeq(h, processedIndex + 1, Len(h))

\* a drift test against the noise floor instead of MAX_POSITION_ERROR
DriftTooLarge_NoiseFloor(cp, serverState) ==
    DistGT(serverState.x - cp.x, serverState.y - cp.y, NOISE_FLOOR)

\* the test of reconcile's fallback: the server position is further than
\* MAX_POSITION_ERROR from the predicted position
DriftTooLarge(cp, serverState) ==
    DistGT(serverState.x - cp.x, serverState.y - cp.y, MAX_POSITION_ERROR)

\* the snap of reconcile: take the server's position, heading and speed
SnapToServer(cp, serverState) ==
    [cp EXCEPT !.x = serverState.x, !.y = serverState.y,
               !.currentAngle = serverState.angle,
               !.currentSpeed = serverState.speed,
               !.correctionX = 0, !.correctionY = 0]

\* ClientPrediction.reconcile
reconcile(cp, serverState) ==
    LET processedIndex == FindProcessedIndex(cp.inputHistory, serverState.lastProcessedInput)
    IN  IF processedIndex = 0
        THEN IF DriftTooLarge(cp, serverState)
             THEN SnapToServer(cp, serverState)
             ELSE cp
        ELSE LET storedAtProcessed == cp.inputHistory[processedIndex]
                 errorX == serverState.x - storedAtProcessed.predictedX
                 errorY == serverState.y - storedAtProcessed.predictedY
                 spliced == [cp EXCEPT !.inputHistory =
                                SpliceProcessed(cp.inputHistory, processedIndex)]
             IN  IF DistGT(errorX, errorY, MAX_POSITION_ERROR)
                 THEN replayInputs(SnapToServer(spliced, serverState))
                 ELSE IF DistGT(errorX, errorY, NOISE_FLOOR)
                 THEN [spliced EXCEPT !.correctionX = spliced.correctionX + errorX,
                                      !.correctionY = spliced.correctionY + errorY]
                 ELSE spliced

\* which branch reconcile takes
ReconcileBranch(cp, serverState) ==
    LET processedIndex == FindProcessedIndex(cp.inputHistory, serverState.lastProcessedInput)
    IN  IF processedIndex = 0
        THEN IF DriftTooLarge(cp, serverState) THEN "missingSnap" ELSE "missing"
        ELSE LET storedAtProcessed == cp.inputHistory[processedIndex]
                 errorX == serverState.x - storedAtProcessed.predictedX
                 errorY == serverState.y - storedAtProcessed.predictedY
             IN  IF DistGT(errorX, errorY, MAX_POSITION_ERROR) THEN "replay"
                 ELSE IF DistGT(errorX, errorY, NOISE_FLOOR) THEN "smooth"
                 ELSE "noise"

\* the highest sequence number handed out: MaxSequence, or two frames' worth
\* more than were run before a scene is taken up with a full input history
SequenceCap == IF pc = "history" THEN 2 * (HistoryFrom + 2) ELSE MaxSequence

\* GameScene.update for a connected, living player: handleLocalMovement,
\* then sendInputToServer
Frame ==
    /\ isAlive
    /\ clientPrediction.inputSequence + 2 <= SequenceCap
    /\ \E in \in FrameInputs, delta \in FrameDeltas, connected \in BOOLEAN :
         LET sequence == clientPrediction.inputSequence + 1
             cp == processInput([clientPrediction EXCEPT !.inputSequence = sequence],
                                in.mouseX, in.mouseY, in.boosting, delta, sequence)
         IN  /\ lantern' = [x |-> Predicted(cp).x, y |-> Predicted(cp).y]
             /\ IF connected
                THEN /\ clientPrediction' = [cp EXCEPT !.inputSequence = sequence + 1]
                     /\ emitted' = [sequence |-> sequence + 1, mouseX |-> in.mouseX,
                                    mouseY |-> in.mouseY, boosting |-> in.boosting]
                ELSE /\ clientPrediction' = cp
                     /\ emitted' = emitted
    /\ UNCHANGED <<isAlive, gameState, reconciled, snapshots, rendered>>
    /\ UNCHANGED serverVars

\* the snapshot buffer's view of the server's snapshot of tick k: the other
\* player joins at tick 2 and moves east
SnapshotAt(k) ==
    [ tick |-> k,
      serverTime |-> k * (1000 \div SERVER_TICK_RATE),
      players |-> IF k >= 2
                  THEN ("p2" :> [ id |-> "p2",
                                  x |-> 100000 + 1000 * k,
                                  y |-> 100000,
                                  angle |-> 100 * k,
                                  speed |-> BASE_SPEED,
                                  score |-> k,
                                  bodySegments |-> << [x |-> 96500 + 1000 * k, y |-> 100000] >> ])
                  ELSE <<>> ]

\* snapshots.findIndex(s => s.tick > snapshot.tick), counted from 1; 0 for -1
FindInsertIndex(buffer, newSnapshot) ==
    IF \E i \in 1..Len(buffer) : buffer[i].tick > newSnapshot.tick
    THEN CHOOSE i \in 1..Len(buffer) :
            /\ buffer[i].tick > newSnapshot.tick
            /\ \A j \in 1..(i - 1) : buffer[j].tick <= newSnapshot.tick
    ELSE 0

\* addSnapshot that pushes every newSnapshot at the end
addSnapshot_Appends(buffer, newSnapshot) ==
    LET inserted == Append(buffer, newSnapshot)
    IN  IF Len(inserted) > SNAPSHOT_BUFFER_SIZE
        THEN SubSeq(inserted, Len(inserted) - SNAPSHOT_BUFFER_SIZE + 1, Len(inserted))
        ELSE inserted

\* SnapshotInterpolation.addSnapshot
addSnapshot(buffer, newSnapshot) ==
    LET insertIndex == FindInsertIndex(buffer, newSnapshot)
        inserted == IF insertIndex = 0
                    THEN Append(buffer, newSnapshot)
                    ELSE SubSeq(buffer, 1, insertIndex - 1) \o <<newSnapshot>>
                         \o SubSeq(buffer, insertIndex, Len(buffer))
    IN  IF Len(inserted) > SNAPSHOT_BUFFER_SIZE
        THEN SubSeq(inserted, Len(inserted) - SNAPSHOT_BUFFER_SIZE + 1, Len(inserted))
        ELSE inserted

\* GameScene.handleGameState for a snapshot that holds the own player
HandleGameState ==
    /\ gameState.tick < MaxSnapshots
    /\ \E s \in ServerStates :
        LET respawned == ~isAlive /\ s.alive
            placed == IF respawned
                      THEN setPosition(clientPrediction, s.x, s.y, s.angle)
                      ELSE clientPrediction
        IN  /\ gameState' = [tick |-> gameState.tick + 1, player |-> s]
            /\ isAlive' = s.alive
            /\ lantern' = IF respawned THEN [x |-> s.x, y |-> s.y] ELSE lantern
            /\ clientPrediction' = IF s.alive THEN reconcile(placed, s) ELSE placed
            /\ reconciled' = IF s.alive THEN ReconcileBranch(placed, s) ELSE "none"
            /\ snapshots' = addSnapshot(snapshots, [ tick |-> gameState.tick + 1,
                                  serverTime |-> (gameState.tick + 1) * (1000 \div SERVER_TICK_RATE),
                                  players |-> <<>> ])
            /\ UNCHANGED <<emitted, rendered>>
    /\ UNCHANGED serverVars

\* getRenderTime, from what getServerTime returns
getRenderTime(serverTime) == serverTime - INTERPOLATION_DELAY

\* findInterpolationSnapshots; t is in thousandths
findInterpolationSnapshots(buffer, renderTime) ==
    IF Len(buffer) = 0 THEN [before |-> Nothing, after |-> Nothing, t |-> 0]
    ELSE LET stop == IF \E i \in 1..Len(buffer) : buffer[i].serverTime > renderTime
                     THEN CHOOSE i \in 1..Len(buffer) :
                             /\ buffer[i].serverTime > renderTime
                             /\ \A j \in 1..(i - 1) : buffer[j].serverTime <= renderTime
                     ELSE 0
             before == IF stop = 0 THEN buffer[Len(buffer)]
                       ELSE IF stop = 1 THEN Nothing ELSE buffer[stop - 1]
             after == IF stop = 0 THEN Nothing ELSE buffer[stop]
         IN  IF before = Nothing \/ after = Nothing
             THEN [ before |-> IF before # Nothing THEN before ELSE buffer[1],
                    after |-> Nothing, t |-> 0 ]
             ELSE LET timeBetween == after.serverTime - before.serverTime
                      timeSinceBefore == renderTime - before.serverTime
                  IN  [ before |-> before, after |-> after,
                        t |-> IF timeBetween > 0
                              THEN Min(1000, Max(0, Trunc(timeSinceBefore * 1000, timeBetween)))
                              ELSE 0 ]

\* lerp
lerp(a, b, t) == a + Trunc((b - a) * t, 1000)

\* the two while loops of lerpAngle
RECURSIVE NormalizeDiff(_)
NormalizeDiff(diff) ==
    IF diff > PI THEN NormalizeDiff(diff - 2 * PI)
    ELSE IF diff < -PI THEN NormalizeDiff(diff + 2 * PI)
    ELSE diff

\* lerpAngle
lerpAngle(a, b, t) == a + Trunc(NormalizeDiff(b - a) * t, 1000)

\* interpolateBodySegments
interpolateBodySegments(before, after, t) ==
    [ i \in 1..Len(after) |->
        IF i <= Len(before)
        THEN [x |-> lerp(before[i].x, after[i].x, t), y |-> lerp(before[i].y, after[i].y, t)]
        ELSE [x |-> after[i].x, y |-> after[i].y] ]

\* interpolatePlayer
interpolatePlayer(before, after, t) ==
    [ id |-> after.id,
      x |-> lerp(before.x, after.x, t),
      y |-> lerp(before.y, after.y, t),
      angle |-> lerpAngle(before.angle, after.angle, t),
      speed |-> lerp(before.speed, after.speed, t),
      score |-> after.score,
      bodySegments |-> interpolateBodySegments(before.bodySegments, after.bodySegments, t) ]

\* playerStateToInterpolated
playerStateToInterpolated(state) ==
    [ id |-> state.id, x |-> state.x, y |-> state.y, angle |-> state.angle,
      speed |-> state.speed, score |-> state.score, bodySegments |-> state.bodySegments ]

\* getInterpolatedPlayers
getInterpolatedPlayers(buffer, renderTime, excludePlayerId) ==
    LET found == findInterpolationSnapshots(buffer, renderTime)
    IN  IF found.before = Nothing THEN <<>>
        ELSE IF found.after = Nothing
        THEN LET latest == buffer[Len(buffer)]
             IN  [ id \in DOMAIN latest.players \ {excludePlayerId} |->
                     playerStateToInterpolated(latest.players[id]) ]
        ELSE [ id \in DOMAIN found.after.players \ {excludePlayerId} |->
                 IF id \in DOMAIN found.before.players
                 THEN interpolatePlayer(found.before.players[id], found.after.players[id],
                                        found.t)
                 ELSE playerStateToInterpolated(found.after.players[id]) ]

\* the ticks of the snapshots that can arrive next: one older than every
\* snapshot held, late ones that fall between those held, and the next one
ArrivingTicks(buffer) ==
    {1, 3, 5} \cup {IF buffer = <<>> THEN 2 ELSE buffer[Len(buffer)].tick + 2}

\* what getServerTime can return when a frame renders the other players
ServerTimes == {125, 175, 210, 225, 270, 4000}

\* GameScene.handleGameState for a snapshot that does not hold the own player
ReceiveSnapshot ==
    /\ gameState.tick < MaxArrivals
    /\ \E k \in ArrivingTicks(snapshots) :
          snapshots' = addSnapshot(snapshots, SnapshotAt(k))
    /\ gameState' = [tick |-> gameState.tick + 1, player |-> Nothing]
    /\ UNCHANGED <<clientPrediction, isAlive, lantern, emitted, reconciled, rendered>>
    /\ UNCHANGED serverVars

\* GameScene.updateOtherPlayers: getInterpolatedPlayers at the render time
UpdateOtherPlayers ==
    /\ \E serverTime \in ServerTimes :
          LET renderTime == getRenderTime(serverTime)
          IN  rendered' = [ renderTime |-> renderTime,
                            t |-> findInterpolationSnapshots(snapshots, renderTime).t,
                            players |-> getInterpolatedPlayers(snapshots, renderTime, "p1") ]
    /\ UNCHANGED <<clientPrediction, isAlive, lantern, emitted, gameState, reconciled,
                   snapshots>>
    /\ UNCHANGED serverVars

----------------------------------------------------------------------------
(* Server: socket handlers and the game loop *)

\* the delays between two runs of the game loop: the interval, or a stall of
\* the event loop while a player waits for its respawn
TickDelays(rm) ==
    IF \E id \in DOMAIN rm.players : ~rm.players[id].alive
    THEN {1000 \div TICK_RATE, RESPAWN_DELAY}
    ELSE {1000 \div TICK_RATE}

\* GameRoom.isFull, of a room followed by its playerCount
isFull(r) == r.playerCount >= MAX_PLAYERS_PER_ROOM

\* GameRoom.isEmpty
isEmpty(r) == r.playerCount = 0

\* the manager's state: the Map and the counter
Manager == [rooms |-> rooms, roomCounter |-> roomCounter]

\* RoomManager.createRoom: the new room goes to the end of the Map
createRoom(m) ==
    [ rooms |-> Append(m.rooms, [id |-> m.roomCounter + 1, playerCount |-> 0]),
      roomCounter |-> m.roomCounter + 1 ]

\* the loop of findAvailableRoom from the i-th room on: the index of bestRoom
\* (0: null) once the Map is walked through
RECURSIVE BestRoom(_, _, _, _)
BestRoom(rms, i, bestRoom, lowestCount) ==
    IF i > Len(rms) THEN bestRoom
    ELSE IF ~isFull(rms[i]) /\ (bestRoom = 0 \/ rms[i].playerCount < lowestCount)
         THEN BestRoom(rms, i + 1, i, rms[i].playerCount)
         ELSE BestRoom(rms, i + 1, bestRoom, lowestCount)

\* the search that takes the first room with space, whatever the others hold
findAvailableRoom_FirstWithSpace(m) ==
    LET withSpace == {i \in 1..Len(m.rooms) : ~isFull(m.rooms[i])}
    IN  IF withSpace = {}
        THEN [manager |-> createRoom(m), bestRoom |-> Len(m.rooms) + 1]
        ELSE [manager |-> m, bestRoom |-> CHOOSE i \in withSpace : \A j \in withSpace : i <= j]

\* RoomManager.findAvailableRoom: the manager afterwards and the index of the
\* room returned
findAvailableRoom(m) ==
    LET bestRoom == BestRoom(m.rooms, 1, 0, 0)
    IN  IF bestRoom = 0
        THEN [manager |-> createRoom(m), bestRoom |-> Len(m.rooms) + 1]
        ELSE [manager |-> m, bestRoom |-> bestRoom]

\* the Map without its i-th room
DeleteRoom(rms, i) == SubSeq(rms, 1, i - 1) \o SubSeq(rms, i + 1, Len(rms))

\* the loop of cleanupEmptyRooms from the i-th room on
RECURSIVE CleanupFrom(_, _)
CleanupFrom(rms, i) ==
    IF i > Len(rms) THEN rms
    ELSE IF isEmpty(rms[i]) /\ Len(rms) > MIN_ROOMS
         THEN CleanupFrom(DeleteRoom(rms, i), i)
         ELSE CleanupFrom(rms, i + 1)

\* the cleanup that deletes every empty room
cleanupEmptyRooms_NoFloor(rms) ==
    SelectSeq(rms, LAMBDA r : ~isEmpty(r))

\* RoomManager.cleanupEmptyRooms
cleanupEmptyRooms(rms) ==
    IF Len(rms) <= MIN_ROOMS THEN rms ELSE CleanupFrom(rms, 1)

\* the room the handlers and the game loop are followed in: the manager's first
TheRoom == 1

\* io.on('connection'): findAvailableRoom, createPlayer, addPlayer, emit 'connected'
Connect(playerId) ==
    /\ pc = "idle"
    /\ playerId \in sockets
    /\ Len(room.playerOrder) < MAX_PLAYERS_PER_ROOM
    /\ \E start \in SpawnPoints, startAngle \in SpawnAngles :
          LET joinedRoom == [room EXCEPT
                               !.players = (playerId :> createPlayer(playerId, start, startAngle))
                                           @@ room.players,
                               !.playerOrder = Append(room.playerOrder, playerId)]
          IN  /\ room' = joinedRoom
              /\ emits' = << [ event |-> "connected", playerId |-> playerId,
                               snapshot |-> buildGameSnapshotForRoom(joinedRoom, now) ] >>
              /\ produced' = [tick |-> joinedRoom.currentTick]
    /\ sockets' = sockets \ {playerId}
    /\ received' = [event |-> "connection", from |-> playerId]
    /\ LET found == findAvailableRoom(Manager)
       IN  /\ found.bestRoom = TheRoom
           /\ rooms' = [found.manager.rooms EXCEPT ![found.bestRoom].playerCount = @ + 1]
           /\ roomCounter' = found.manager.roomCounter
           /\ others' = others
    /\ UNCHANGED <<now, horizon, pc, playersArray, deaths, snapshot, HEAD_COLLISION_BOTH_DIE>>
    /\ UNCHANGED clientVars

\* socket.on('joinGame')
JoinGame(playerId) ==
    /\ pc = "idle"
    /\ playerId \in DOMAIN room.players
    /\ IF ~room.players[playerId].hasJoined
       THEN /\ room' = [room EXCEPT !.players[playerId].hasJoined = TRUE]
            /\ emits' = << [event |-> "playerJoined", playerId |-> playerId] >>
       ELSE /\ room' = room
            /\ emits' = <<>>
    /\ received' = [event |-> "joinGame", from |-> playerId]
    /\ UNCHANGED <<now, sockets, horizon, pc, playersArray, deaths, snapshot, produced,
                   HEAD_COLLISION_BOTH_DIE>>
    /\ UNCHANGED clientVars
    /\ UNCHANGED managerVars

\* the handler without the test on alive and hasJoined
PlayerInput_Unguarded(playerId) ==
    /\ pc = "idle"
    /\ playerId \in DOMAIN room.players
    /\ \E message \in ServerInputs,
          sequence \in (room.players[playerId].input.sequence + 1)..MaxInputSequence :
          room' = [room EXCEPT
                      !.players[playerId].input =
                          [ sequence |-> sequence, mouseX |-> message.mouseX,
                            mouseY |-> message.mouseY, boosting |-> message.boosting ],
                      !.players[playerId].lastProcessedInput = sequence]
    /\ emits' = <<>>
    /\ received' = [event |-> "playerInput", from |-> playerId]
    /\ UNCHANGED <<now, sockets, horizon, pc, playersArray, deaths, snapshot, produced,
                   HEAD_COLLISION_BOTH_DIE>>
    /\ UNCHANGED clientVars
    /\ UNCHANGED managerVars

\* socket.on('playerInput')
PlayerInput(playerId) ==
    /\ pc = "idle"
    /\ playerId \in DOMAIN room.players
    /\ \E message \in ServerInputs,
          sequence \in (room.players[playerId].input.sequence + 1)..MaxInputSequence :
          LET player == room.players[playerId]
              input == [ sequence |-> sequence, mouseX |-> message.mouseX,
                         mouseY |-> message.mouseY, boosting |-> message.boosting ]
          IN  IF player.alive /\ player.hasJoined
              THEN room' = [room EXCEPT !.players[playerId].input = input,
                                        !.players[playerId].lastProcessedInput = sequence]
              ELSE room' = room
    /\ emits' = <<>>
    /\ received' = [event |-> "playerInput", from |-> playerId]
    /\ UNCHANGED <<now, sockets, horizon, pc, playersArray, deaths, snapshot, produced,
                   HEAD_COLLISION_BOTH_DIE>>
    /\ UNCHANGED clientVars
    /\ UNCHANGED managerVars

\* socket.on('ping')
Ping(playerId) ==
    /\ pc = "idle"
    /\ playerId \in DOMAIN room.players
    /\ emits' = << [event |-> "pong", playerId |-> playerId, serverTime |-> now] >>
    /\ received' = [event |-> "ping", from |-> playerId]
    /\ UNCHANGED <<room, now, sockets, horizon, pc, playersArray, deaths, snapshot, produced,
                   HEAD_COLLISION_BOTH_DIE>>
    /\ UNCHANGED clientVars
    /\ UNCHANGED managerVars

\* the handler without the test on respawnTime: any dead sender respawns
RequestRespawn_IgnoresTimer(playerId) ==
    /\ pc = "idle"
    /\ playerId \in DOMAIN room.players
    /\ LET player == room.players[playerId]
       IN  IF ~player.alive
           THEN \E start \in SpawnPoints, startAngle \in SpawnAngles :
                   /\ room' = [room EXCEPT !.players[playerId] =
                                               respawnPlayer(player, start, startAngle)]
                   /\ emits' = << [event |-> "playerRespawned", playerId |-> playerId] >>
           ELSE /\ room' = room
                /\ emits' = <<>>
    /\ received' = [event |-> "requestRespawn", from |-> playerId]
    /\ UNCHANGED <<now, sockets, horizon, pc, playersArray, deaths, snapshot, produced,
                   HEAD_COLLISION_BOTH_DIE>>
    /\ UNCHANGED clientVars
    /\ UNCHANGED managerVars

\* socket.on('requestRespawn')
RequestRespawn(playerId) ==
    /\ pc = "idle"
    /\ playerId \in DOMAIN room.players
    /\ LET player == room.players[playerId]
       IN  IF ~player.alive /\ player.respawnTime = 0
           THEN \E start \in SpawnPoints, startAngle \in SpawnAngles :
                   /\ room' = [room EXCEPT !.players[playerId] =
                                               respawnPlayer(player, start, startAngle)]
                   /\ emits' = << [event |-> "playerRespawned", playerId |-> playerId] >>
           ELSE /\ room' = room
                /\ emits' = <<>>
    /\ received' = [event |-> "requestRespawn", from |-> playerId]
    /\ UNCHANGED <<now, sockets, horizon, pc, playersArray, deaths, snapshot, produced,
                   HEAD_COLLISION_BOTH_DIE>>
    /\ UNCHANGED clientVars
    /\ UNCHANGED managerVars

\* room.removePlayer
removePlayer(rm, playerId) ==
    [rm EXCEPT !.players = [id \in DOMAIN rm.players \ {playerId} |-> rm.players[id]],
               !.playerOrder = SelectIds(rm.playerOrder, DOMAIN rm.players \ {playerId})]

\* the handler that removes the player without killing it first
Disconnect_NoDeath(playerId) ==
    /\ pc = "idle"
    /\ playerId \in DOMAIN room.players
    /\ room' = removePlayer(room, playerId)
    /\ emits' = << [event |-> "playerLeft", playerId |-> playerId] >>
    /\ received' = [event |-> "disconnect", from |-> playerId]
    /\ rooms' = [rooms EXCEPT ![TheRoom].playerCount = @ - 1]
    /\ UNCHANGED <<roomCounter, others>>
    /\ UNCHANGED <<now, sockets, horizon, pc, playersArray, deaths, snapshot, produced,
                   HEAD_COLLISION_BOTH_DIE>>
    /\ UNCHANGED clientVars

\* socket.on('disconnect')
Disconnect(playerId) ==
    /\ pc = "idle"
    /\ playerId \in DOMAIN room.players
    /\ LET player == room.players[playerId]
           killed == IF player.alive /\ player.hasJoined
                     THEN killPlayerInRoom([room |-> room, emits |-> <<>>], now,
                                           playerId, "disconnect", None)
                     ELSE [room |-> room, emits |-> <<>>]
       IN  /\ room' = removePlayer(killed.room, playerId)
           /\ emits' = Append(killed.emits, [event |-> "playerLeft", playerId |-> playerId])
    /\ received' = [event |-> "disconnect", from |-> playerId]
    /\ rooms' = [rooms EXCEPT ![TheRoom].playerCount = @ - 1]
    /\ UNCHANGED <<roomCounter, others>>
    /\ UNCHANGED <<now, sockets, horizon, pc, playersArray, deaths, snapshot, produced,
                   HEAD_COLLISION_BOTH_DIE>>
    /\ UNCHANGED clientVars

\* the counter stepped by two
incrementTick_ByTwo(rm) == [rm EXCEPT !.currentTick = rm.currentTick + 2]

\* room.incrementTick
incrementTick(rm) == [rm EXCEPT !.currentTick = rm.currentTick + 1]

\* the body of gameLoop for the one room: the room after the tick, the room
\* as the collision check found it, the events emitted and the snapshot
gameLoop(rm, time, respawnDraw, foodDraw, bothDie) ==
    LET deltaMs == 1000 \div TICK_RATE
        respawned == checkRespawnsInRoom([room |-> incrementTick(rm), emits |-> <<>>],
                                         time, respawnDraw, 1)
        updated == UpdatePlayers(respawned.room, deltaMs, 1)
        collided == checkPlayerCollisionsInRoom(
                       [room |-> updated, emits |-> respawned.emits], time, bothDie)
        attracted == updateFoodMagnetismInRoom(collided.room, deltaMs, 1)
        collected == checkFoodCollisionsInRoom(
                       [room |-> attracted, emits |-> collided.emits], 1)
        maintained == maintainFoodCountInRoom(collected.room, foodDraw)
    IN  [ room |-> maintained,
          updated |-> updated,
          emits |-> collected.emits,
          snapshot |-> buildGameSnapshotForRoom(maintained, time) ]

\* RoomManager.getAllRooms, for the rooms followed in full
getAllRooms == <<room>> \o others

\* the loop variable of gameLoop with the players of the next room let in
RoomTicked_WithNeighbour(all, i) ==
    LET j == (i % Len(all)) + 1
    IN  IF j = i THEN all[i]
        ELSE [all[i] EXCEPT !.players = all[i].players @@ all[j].players,
                            !.playerOrder = all[i].playerOrder \o all[j].playerOrder]

\* the loop variable of gameLoop: the i-th room, on which the body works
RoomTicked(all, i) == all[i]

\* the random places and headings of the respawns in a room other than the
\* observed one: the first of those Math.random can draw
FirstRespawnDraw(rm, time) ==
    [id \in Respawning(rm, time) |-> CHOOSE draw \in SpawnPoints \X SpawnAngles : TRUE]

\* what gameLoop leaves, given what its loop body made of every room
Ticked(ticked, time) ==
    /\ room' = ticked[TheRoom].room
    /\ now' = time
    /\ playersArray' = AlivePlayersArray(ticked[TheRoom].updated)
    /\ deaths' = DetectDeaths(ticked[TheRoom].updated, HEAD_COLLISION_BOTH_DIE)
    /\ emits' = ticked[TheRoom].emits
    /\ snapshot' = ticked[TheRoom].snapshot
    /\ produced' = [tick |-> ticked[TheRoom].snapshot.tick]
    /\ others' = [i \in 1..Len(others) |-> ticked[i + 1].room]

\* gameLoop, run by setInterval: every room in turn, then the cleanup
Tick ==
    /\ pc = "idle"
    /\ room.currentTick < horizon
    /\ \E delay \in TickDelays(room) :
       \E respawnDraw \in [Respawning(room, now + delay) -> SpawnPoints \X SpawnAngles] :
       \E foodDraw \in (IF Cardinality(DOMAIN room.food) >= MAX_FOOD_COUNT
                        THEN {CHOOSE d \in FoodDraws : TRUE} ELSE FoodDraws) :
          Ticked([i \in 1..Len(getAllRooms) |->
                    gameLoop(RoomTicked(getAllRooms, i), now + delay,
                             IF i = TheRoom THEN respawnDraw
                             ELSE FirstRespawnDraw(getAllRooms[i], now + delay),
                             IF i = TheRoom THEN foodDraw ELSE CHOOSE d \in FoodDraws : TRUE,
                             HEAD_COLLISION_BOTH_DIE)],
                 now + delay)
    /\ received' = Nothing
    /\ rooms' = cleanupEmptyRooms(rooms)
    /\ UNCHANGED <<sockets, horizon, pc, HEAD_COLLISION_BOTH_DIE, roomCounter>>
    /\ UNCHANGED clientVars

\* checkPlayerCollisionsInRoom alone, on a room as play has left it
CheckCollisions ==
    /\ pc = "collide"
    /\ LET collided == checkPlayerCollisionsInRoom([room |-> room, emits |-> <<>>],
                                                   now, HEAD_COLLISION_BOTH_DIE)
       IN  /\ room' = collided.room
           /\ emits' = collided.emits
    /\ playersArray' = AlivePlayersArray(room)
    /\ deaths' = DetectDeaths(room, HEAD_COLLISION_BOTH_DIE)
    /\ pc' = "done"
    /\ UNCHANGED <<now, sockets, horizon, snapshot, received, produced,
                   HEAD_COLLISION_BOTH_DIE>>
    /\ UNCHANGED clientVars
    /\ UNCHANGED managerVars

\* checkFoodCollisionsInRoom alone, on a room as play has left it
CollectFood ==
    /\ pc = "collect"
    /\ LET collected == checkFoodCollisionsInRoom([room |-> room, emits |-> <<>>], 1)
       IN  /\ room' = collected.room
           /\ emits' = collected.emits
    /\ pc' = "done"
    /\ UNCHANGED <<now, sockets, horizon, playersArray, deaths, snapshot, received, produced,
                   HEAD_COLLISION_BOTH_DIE>>
    /\ UNCHANGED clientVars
    /\ UNCHANGED managerVars

\* the inputs given to the client and to the server alike
LockstepInputs ==
    ServerInputs \cup { [mouseX |-> -100, mouseY |-> 0, boosting |-> FALSE] }

\* one input given to both movement steps with the same elapsed time:
\* getNextSequence and processInput on the client, updatePlayerMovement for
\* the player on the server
MoveBoth ==
    /\ pc = "lockstep"
    /\ clientPrediction.inputSequence < MaxLockstep
    /\ \E in \in LockstepInputs :
          LET deltaMs == 1000 \div TICK_RATE
              sequence == clientPrediction.inputSequence + 1
              input == [sequence |-> sequence, mouseX |-> in.mouseX, mouseY |-> in.mouseY,
                        boosting |-> in.boosting]
          IN  /\ clientPrediction' =
                    processInput([clientPrediction EXCEPT !.inputSequence = sequence],
                                 in.mouseX, in.mouseY, in.boosting, deltaMs, sequence)
              /\ room' = [room EXCEPT !.players["p1"] =
                             updatePlayerMovement([@ EXCEPT !.input = input], deltaMs)]
    /\ UNCHANGED <<isAlive, lantern, emitted, gameState, reconciled, snapshots, rendered>>
    /\ UNCHANGED <<now, sockets, horizon, playersArray, deaths, emits, snapshot, received,
                   produced, pc, HEAD_COLLISION_BOTH_DIE>>
    /\ UNCHANGED managerVars

\* the players of all the rooms together
RECURSIVE TotalPlayers(_)
TotalPlayers(rms) ==
    IF rms = <<>> THEN 0 ELSE Head(rms).playerCount + TotalPlayers(Tail(rms))

\* io.on('connection') as the manager sees it: findAvailableRoom, then addPlayer
\* on the room returned
ConnectToRooms ==
    /\ pc = "rooms"
    /\ TotalPlayers(rooms) < MaxCrowd
    /\ LET found == findAvailableRoom(Manager)
       IN  /\ found.manager.roomCounter <= MaxRoomCounter
           /\ rooms' = [found.manager.rooms EXCEPT ![found.bestRoom].playerCount = @ + 1]
           /\ roomCounter' = found.manager.roomCounter
           /\ others' = others
    /\ UNCHANGED roomVars
    /\ UNCHANGED clientVars

\* socket.on('disconnect') as the manager sees it: removePlayer on the room of
\* the socket, the i-th of the Map
DisconnectFromRoom(i) ==
    /\ pc = "rooms"
    /\ i \in 1..Len(rooms)
    /\ rooms[i].playerCount > 0
    /\ rooms' = [rooms EXCEPT ![i].playerCount = @ - 1]
    /\ UNCHANGED <<roomCounter, others>>
    /\ UNCHANGED roomVars
    /\ UNCHANGED clientVars

\* the end of gameLoop as the manager sees it: cleanupEmptyRooms
CleanupRooms ==
    /\ pc = "rooms"
    /\ rooms' = cleanupEmptyRooms(rooms)
    /\ UNCHANGED <<roomCounter, others>>
    /\ UNCHANGED roomVars
    /\ UNCHANGED clientVars

----------------------------------------------------------------------------
(* Specifications *)

\* the scene after create(), beside a server nobody connects to
InitClient ==
    /\ clientPrediction = NewClientPrediction(CLIENT_WORLD_WIDTH \div 2,
                                              CLIENT_WORLD_HEIGHT \div 2, 0)
    /\ isAlive = TRUE
    /\ lantern = [x |-> CLIENT_WORLD_WIDTH \div 2, y |-> CLIENT_WORLD_HEIGHT \div 2]
    /\ emitted = Nothing
    /\ gameState = [tick |-> 0, player |-> Nothing]
    /\ reconciled = "none"
    /\ snapshots = <<>>
    /\ rendered = Nothing
    /\ room = NewGameRoom
    /\ now = 0
    /\ sockets = {}
    /\ horizon = 0
    /\ pc = "idle"
    /\ playersArray = <<>>
    /\ deaths = <<>>
    /\ emits = <<>>
    /\ snapshot = Nothing
    /\ received = Nothing
    /\ produced = Nothing
    /\ HEAD_COLLISION_BOTH_DIE = FALSE
    /\ rooms = <<[id |-> 1, playerCount |-> Len(room.playerOrder)]>>
    /\ roomCounter = 1
    /\ others = <<>>

\* the server after start-up: one room, one socket still to connect, and a
\* scene that stays as created
InitSolo ==
    /\ clientPrediction = NewClientPrediction(CLIENT_WORLD_WIDTH \div 2,
                                              CLIENT_WORLD_HEIGHT \div 2, 0)
    /\ isAlive = TRUE
    /\ lantern = [x |-> CLIENT_WORLD_WIDTH \div 2, y |-> CLIENT_WORLD_HEIGHT \div 2]
    /\ emitted = Nothing
    /\ gameState = [tick |-> 0, player |-> Nothing]
    /\ reconciled = "none"
    /\ snapshots = <<>>
    /\ rendered = Nothing
    /\ room = NewGameRoom
    /\ now = 0
    /\ sockets = {"p1"}
    /\ horizon = MaxTick
    /\ pc = "idle"
    /\ playersArray = <<>>
    /\ deaths = <<>>
    /\ emits = <<>>
    /\ snapshot = Nothing
    /\ received = Nothing
    /\ produced = Nothing
    /\ HEAD_COLLISION_BOTH_DIE = FALSE
    /\ rooms = <<[id |-> 1, playerCount |-> Len(room.playerOrder)]>>
    /\ roomCounter = 1
    /\ others = <<>>

vars == <<clientVars, serverVars>>

\* the client alone, fed with the updates a server can send
NextClient == Frame \/ HandleGameState

SpecClient == InitClient /\ [][NextClient]_vars

\* the server with its handlers and game loop
NextServer ==
    \/ \E playerId \in PlayerIds : Connect(playerId)
    \/ \E playerId \in PlayerIds : JoinGame(playerId)
    \/ \E playerId \in PlayerIds : PlayerInput(playerId)
    \/ \E playerId \in PlayerIds : Ping(playerId)
    \/ \E playerId \in PlayerIds : RequestRespawn(playerId)
    \/ \E playerId \in PlayerIds : Disconnect(playerId)
    \/ Tick

\* where the heads of the players stand at a collision check: two places
\* with heads in contact, one beside the first segment of a body at the
\* first, one on the west border and one in contact with it
CollisionPoints ==
    { [x |-> 300000, y |-> 300000],
      [x |-> 303000, y |-> 300000],
      [x |-> 296500, y |-> 302000],
      [x |-> 1000, y |-> 300000],
      [x |-> 4000, y |-> 300000] }

\* a joined player as play leaves it: alive, heading east with size segments
\* behind it, or dead as killPlayerInRoom left it
PlayerInPlay(playerId, at, size, alive) ==
    IF alive
    THEN [createPlayer(playerId, at, 0) EXCEPT
            !.hasJoined = TRUE,
            !.targetLength = Max(STARTING_BODY_LENGTH, size),
            !.bodySegments = [ k \in 1..size |->
                                 [ x |-> at.x - FIRST_SEGMENT_GAP - (k - 1) * BODY_SEGMENT_SPACING,
                                   y |-> at.y ] ]]
    ELSE [createPlayer(playerId, at, 0) EXCEPT
            !.hasJoined = TRUE,
            !.alive = FALSE,
            !.respawnTime = RESPAWN_DELAY,
            !.targetLength = 0,
            !.positionHistory = <<>>]

\* the rooms a collision check is run on: two players alive, and a third that
\* is absent, alive or dead
RoomsInPlay ==
    { [NewGameRoom EXCEPT !.players = first @@ second @@ third.players,
                          !.playerOrder = <<"p1", "p2">> \o third.playerOrder] :
        first \in { ("p1" :> PlayerInPlay("p1", at, size, TRUE)) :
                        at \in CollisionPoints, size \in 0..MaxBody },
        second \in { ("p2" :> PlayerInPlay("p2", at, size, TRUE)) :
                        at \in CollisionPoints, size \in 0..MaxBody },
        third \in { [players |-> <<>>, playerOrder |-> <<>>] } \cup
                  { [players |-> ("p3" :> PlayerInPlay("p3", at, size, TRUE)),
                     playerOrder |-> <<"p3">>] :
                        at \in CollisionPoints, size \in 0..MaxBody } \cup
                  { [players |-> ("p3" :> PlayerInPlay("p3", at, 0, FALSE)),
                     playerOrder |-> <<"p3">>] : at \in CollisionPoints } }

InitCollision ==
    /\ clientPrediction = NewClientPrediction(CLIENT_WORLD_WIDTH \div 2,
                                              CLIENT_WORLD_HEIGHT \div 2, 0)
    /\ isAlive = TRUE
    /\ lantern = [x |-> CLIENT_WORLD_WIDTH \div 2, y |-> CLIENT_WORLD_HEIGHT \div 2]
    /\ emitted = Nothing
    /\ gameState = [tick |-> 0, player |-> Nothing]
    /\ reconciled = "none"
    /\ snapshots = <<>>
    /\ rendered = Nothing
    /\ room \in RoomsInPlay
    /\ now = 0
    /\ sockets = {}
    /\ horizon = 0
    /\ pc = "collide"
    /\ playersArray = <<>>
    /\ deaths = <<>>
    /\ emits = <<>>
    /\ snapshot = Nothing
    /\ received = Nothing
    /\ produced = Nothing
    /\ HEAD_COLLISION_BOTH_DIE \in BOOLEAN
    /\ rooms = <<[id |-> 1, playerCount |-> Len(room.playerOrder)]>>
    /\ roomCounter = 1
    /\ others = <<>>

NextCollision == CheckCollisions

\* one collision check on a room in play, in either head-collision mode
SpecCollision == InitCollision /\ [][NextCollision]_vars

\* one player on the server, followed for MaxTick ticks
SpecSolo == InitSolo /\ [][NextServer]_vars


\* a tick of the game loop in a room where nobody is dead and the food is at
\* its cap: no random draw is used
IdleLoop(rm, time) ==
    gameLoop(rm, time, [id \in {} |-> <<>>], CHOOSE d \in FoodDraws : TRUE, FALSE).room

\* the ticks up to the given one, a tick interval apart from start-up on
RECURSIVE IdleUntil(_, _)
IdleUntil(rm, tick) ==
    IF rm.currentTick >= tick THEN rm
    ELSE IdleUntil(IdleLoop(rm, (rm.currentTick + 1) * (1000 \div TICK_RATE)), tick)

\* the same, taken sixteen ticks at a time
RECURSIVE IdleFor(_, _)
IdleFor(rm, tick) ==
    IF rm.currentTick + 16 >= tick THEN IdleUntil(rm, tick)
    ELSE IdleFor(IdleUntil(rm, rm.currentTick + 16), tick)

\* the room after one player connected in the middle of the world and joined
JoinedAlone ==
    [NewGameRoom EXCEPT
        !.players = ("p1" :> [createPlayer("p1", [x |-> WORLD_WIDTH \div 2, y |-> WORLD_HEIGHT \div 2], 0)
                                EXCEPT !.hasJoined = TRUE]),
        !.playerOrder = <<"p1">>]

\* one player who joined at start-up and has sent no input since, taken up
\* after IdleFrom ticks or a few more
InitIdle ==
    /\ clientPrediction = NewClientPrediction(CLIENT_WORLD_WIDTH \div 2,
                                              CLIENT_WORLD_HEIGHT \div 2, 0)
    /\ isAlive = TRUE
    /\ lantern = [x |-> CLIENT_WORLD_WIDTH \div 2, y |-> CLIENT_WORLD_HEIGHT \div 2]
    /\ emitted = Nothing
    /\ gameState = [tick |-> 0, player |-> Nothing]
    /\ reconciled = "none"
    /\ snapshots = <<>>
    /\ rendered = Nothing
    /\ \E ticks \in IdleFrom..(IdleFrom + 1) :
          /\ room = IdleFor(JoinedAlone, ticks)
          /\ now = ticks * (1000 \div TICK_RATE)
          /\ horizon = ticks + MaxIdleRun
          /\ produced = [tick |-> ticks]
    /\ sockets = {}
    /\ pc = "idle"
    /\ playersArray = <<"p1">>
    /\ deaths = <<>>
    /\ emits = <<>>
    /\ snapshot = buildGameSnapshotForRoom(room, now)
    /\ received = Nothing
    /\ HEAD_COLLISION_BOTH_DIE = FALSE
    /\ rooms = <<[id |-> 1, playerCount |-> Len(room.playerOrder)]>>
    /\ roomCounter = 1
    /\ others = <<>>

\* the server once everybody has connected
NextRoom ==
    \/ \E playerId \in PlayerIds : JoinGame(playerId)
    \/ \E playerId \in PlayerIds : PlayerInput(playerId)
    \/ \E playerId \in PlayerIds : Ping(playerId)
    \/ \E playerId \in PlayerIds : RequestRespawn(playerId)
    \/ \E playerId \in PlayerIds : Disconnect(playerId)
    \/ Tick

\* a player who has long been idle, followed for MaxIdleRun ticks
SpecIdle == InitIdle /\ [][NextRoom]_vars

\* the room in which the one player, with size segments and as many points,
\* has just died on the west border
Fallen(size, joined) ==
    LET at == [x |-> PLAYER_CONFIG_RADIUS \div 2, y |-> WORLD_HEIGHT \div 2]
        before == [NewGameRoom EXCEPT
                      !.players = ("p1" :> [PlayerInPlay("p1", at, size, TRUE) EXCEPT
                                               !.hasJoined = joined,
                                               !.score = size * FOOD_BASE_VALUE]),
                      !.playerOrder = <<"p1">>]
    IN  killPlayerInRoom([room |-> before, emits |-> <<>>], 0, "p1", "world_border", None).room

\* one player that died at time 0, two tick intervals before its respawn is due
InitFallen ==
    /\ clientPrediction = NewClientPrediction(CLIENT_WORLD_WIDTH \div 2,
                                              CLIENT_WORLD_HEIGHT \div 2, 0)
    /\ isAlive = TRUE
    /\ lantern = [x |-> CLIENT_WORLD_WIDTH \div 2, y |-> CLIENT_WORLD_HEIGHT \div 2]
    /\ emitted = Nothing
    /\ gameState = [tick |-> 0, player |-> Nothing]
    /\ reconciled = "none"
    /\ snapshots = <<>>
    /\ rendered = Nothing
    /\ \E size \in 0..MaxBody, joined \in BOOLEAN : room = Fallen(size, joined)
    /\ now = RESPAWN_DELAY - 2 * (1000 \div TICK_RATE)
    /\ sockets = {}
    /\ horizon = MaxRespawnRun
    /\ pc = "idle"
    /\ playersArray = <<"p1">>
    /\ deaths = << [player |-> "p1", cause |-> "world_border", killer |-> None] >>
    /\ emits = <<>>
    /\ snapshot = buildGameSnapshotForRoom(room, 0)
    /\ received = Nothing
    /\ produced = [tick |-> room.currentTick]
    /\ HEAD_COLLISION_BOTH_DIE = FALSE
    /\ rooms = <<[id |-> 1, playerCount |-> Len(room.playerOrder)]>>
    /\ roomCounter = 1
    /\ others = <<>>

\* a player that died, followed for MaxRespawnRun ticks
SpecRespawn == InitFallen /\ [][NextRoom]_vars

\* the interval timer runs the game loop: what tells a step of Tick from
\* every other step is that the snapshot of the next tick is built
TimerFires ==
    /\ pc = "idle"
    /\ room.currentTick < horizon
    /\ produced' = [tick |-> room.currentTick + 1]

\* the same with the game loop kept running by its interval timer
SpecRespawnLive == InitFallen /\ [][NextRoom]_vars /\ WF_produced(TimerFires)

\* a scene that has been receiving every second snapshot, in order, and holds
\* none, one, or a buffer that is full or one short of it
InitInterpolation ==
    /\ clientPrediction = NewClientPrediction(CLIENT_WORLD_WIDTH \div 2,
                                              CLIENT_WORLD_HEIGHT \div 2, 0)
    /\ isAlive = TRUE
    /\ lantern = [x |-> CLIENT_WORLD_WIDTH \div 2, y |-> CLIENT_WORLD_HEIGHT \div 2]
    /\ emitted = Nothing
    /\ gameState = [tick |-> 0, player |-> Nothing]
    /\ reconciled = "none"
    /\ \E held \in {0, 1, SNAPSHOT_BUFFER_SIZE - 1, SNAPSHOT_BUFFER_SIZE} :
          snapshots = [i \in 1..held |-> SnapshotAt(2 * i)]
    /\ rendered = Nothing
    /\ room = NewGameRoom
    /\ now = 0
    /\ sockets = {}
    /\ horizon = 0
    /\ pc = "idle"
    /\ playersArray = <<>>
    /\ deaths = <<>>
    /\ emits = <<>>
    /\ snapshot = Nothing
    /\ received = Nothing
    /\ produced = Nothing
    /\ HEAD_COLLISION_BOTH_DIE = FALSE
    /\ rooms = <<[id |-> 1, playerCount |-> Len(room.playerOrder)]>>
    /\ roomCounter = 1
    /\ others = <<>>

NextInterpolation == ReceiveSnapshot \/ UpdateOtherPlayers

\* the snapshot buffer of a scene as snapshots arrive and frames render
SpecInterpolation == InitInterpolation /\ [][NextInterpolation]_vars

\* the room after one player connected in the middle of the world, joined
\* and sent one input: east, boosting
BoostingAlone ==
    [JoinedAlone EXCEPT
        !.players["p1"].input = [sequence |-> 0, mouseX |-> 100, mouseY |-> 0, boosting |-> TRUE]]

\* one player who has boosted east from start-up on, taken up after SpentFrom
\* ticks or one more, when its targetLength has come down to MIN_BODY_LENGTH
InitSpent ==
    /\ clientPrediction = NewClientPrediction(CLIENT_WORLD_WIDTH \div 2,
                                              CLIENT_WORLD_HEIGHT \div 2, 0)
    /\ isAlive = TRUE
    /\ lantern = [x |-> CLIENT_WORLD_WIDTH \div 2, y |-> CLIENT_WORLD_HEIGHT \div 2]
    /\ emitted = Nothing
    /\ gameState = [tick |-> 0, player |-> Nothing]
    /\ reconciled = "none"
    /\ snapshots = <<>>
    /\ rendered = Nothing
    /\ \E ticks \in SpentFrom..(SpentFrom + 1) :
          /\ room = IdleFor(BoostingAlone, ticks)
          /\ now = ticks * (1000 \div TICK_RATE)
          /\ horizon = ticks + MaxSpentRun
          /\ produced = [tick |-> ticks]
    /\ sockets = {}
    /\ pc = "idle"
    /\ playersArray = <<"p1">>
    /\ deaths = <<>>
    /\ emits = <<>>
    /\ snapshot = buildGameSnapshotForRoom(room, now)
    /\ received = Nothing
    /\ HEAD_COLLISION_BOTH_DIE = FALSE
    /\ rooms = <<[id |-> 1, playerCount |-> Len(room.playerOrder)]>>
    /\ roomCounter = 1
    /\ others = <<>>

\* a player that has burnt its body by boosting, followed for MaxSpentRun ticks
SpecSpent == InitSpent /\ [][NextRoom]_vars

\* where the heads of two players stand at a collection check: 30 px apart,
\* or far from each other
CollectPoints ==
    { [x |-> 300000, y |-> 300000],
      [x |-> 303000, y |-> 300000],
      [x |-> 350000, y |-> 300000] }

\* the pellets that lie about them: one between the two near heads, within
\* reach of both, and a golden one west of them
PelletsAbout ==
    { <<>>,
      << [x |-> 301500, y |-> 300000, value |-> FOOD_BASE_VALUE] >>,
      << [x |-> 298000, y |-> 300000, value |-> FOOD_BASE_VALUE * GOLDEN_MULTIPLIER] >>,
      << [x |-> 301500, y |-> 300000, value |-> FOOD_BASE_VALUE],
         [x |-> 298000, y |-> 300000, value |-> FOOD_BASE_VALUE * GOLDEN_MULTIPLIER] >> }

\* spawnFoodInRoom for each of the pellets in turn
RECURSIVE SpawnAll(_, _)
SpawnAll(rm, pellets) ==
    IF pellets = <<>> THEN rm
    ELSE SpawnAll(spawnFoodInRoom(rm, Head(pellets).x, Head(pellets).y, Head(pellets).value),
                  Tail(pellets))

\* the rooms a collection check is run on: two players, each alive or dead,
\* and the pellets about them
RoomsAtFood ==
    { SpawnAll([NewGameRoom EXCEPT !.players = first @@ second,
                                   !.playerOrder = <<"p1", "p2">>], pellets) :
        first \in { ("p1" :> PlayerInPlay("p1", at, 0, alive)) :
                        at \in CollectPoints, alive \in BOOLEAN },
        second \in { ("p2" :> PlayerInPlay("p2", at, 0, alive)) :
                        at \in CollectPoints, alive \in BOOLEAN },
        pellets \in PelletsAbout }

InitCollect ==
    /\ clientPrediction = NewClientPrediction(CLIENT_WORLD_WIDTH \div 2,
                                              CLIENT_WORLD_HEIGHT \div 2, 0)
    /\ isAlive = TRUE
    /\ lantern = [x |-> CLIENT_WORLD_WIDTH \div 2, y |-> CLIENT_WORLD_HEIGHT \div 2]
    /\ emitted = Nothing
    /\ gameState = [tick |-> 0, player |-> Nothing]
    /\ reconciled = "none"
    /\ snapshots = <<>>
    /\ rendered = Nothing
    /\ room \in RoomsAtFood
    /\ now = 0
    /\ sockets = {}
    /\ horizon = 0
    /\ pc = "collect"
    /\ playersArray = <<>>
    /\ deaths = <<>>
    /\ emits = <<>>
    /\ snapshot = Nothing
    /\ received = Nothing
    /\ produced = Nothing
    /\ HEAD_COLLISION_BOTH_DIE = FALSE
    /\ rooms = <<[id |-> 1, playerCount |-> Len(room.playerOrder)]>>
    /\ roomCounter = 1
    /\ others = <<>>

NextCollect == CollectFood

\* one collection check on a room in play
SpecCollect == InitCollect /\ [][NextCollect]_vars

\* the scores a player can die with: below and at the steps of ten, and past
\* the cap on the drops at the head
DeathScores == {0, 9, 10, 39, 40, 55}

\* the rooms a death is followed in: the first player on the west border or
\* head to head with the second, with a body and a score
RoomsAtDeath ==
    { [NewGameRoom EXCEPT !.players = first @@ second,
                          !.playerOrder = <<"p1", "p2">>] :
        first \in { ("p1" :> [PlayerInPlay("p1", at, size, TRUE) EXCEPT !.score = score]) :
                        at \in { [x |-> PLAYER_CONFIG_RADIUS \div 2, y |-> WORLD_HEIGHT \div 2],
                                 [x |-> WORLD_WIDTH \div 2, y |-> WORLD_HEIGHT \div 2] },
                        size \in 0..MaxBody, score \in DeathScores },
        second \in { ("p2" :> [PlayerInPlay("p2", [x |-> WORLD_WIDTH \div 2 + 3000,
                                                       y |-> WORLD_HEIGHT \div 2], size, TRUE)
                                 EXCEPT !.score = score]) :
                        size \in 0..MaxBody, score \in {0, 40} } }

InitDeath ==
    /\ clientPrediction = NewClientPrediction(CLIENT_WORLD_WIDTH \div 2,
                                              CLIENT_WORLD_HEIGHT \div 2, 0)
    /\ isAlive = TRUE
    /\ lantern = [x |-> CLIENT_WORLD_WIDTH \div 2, y |-> CLIENT_WORLD_HEIGHT \div 2]
    /\ emitted = Nothing
    /\ gameState = [tick |-> 0, player |-> Nothing]
    /\ reconciled = "none"
    /\ snapshots = <<>>
    /\ rendered = Nothing
    /\ room \in RoomsAtDeath
    /\ now = 0
    /\ sockets = {}
    /\ horizon = 0
    /\ pc = "collide"
    /\ playersArray = <<>>
    /\ deaths = <<>>
    /\ emits = <<>>
    /\ snapshot = Nothing
    /\ received = Nothing
    /\ produced = Nothing
    /\ HEAD_COLLISION_BOTH_DIE \in BOOLEAN
    /\ rooms = <<[id |-> 1, playerCount |-> Len(room.playerOrder)]>>
    /\ roomCounter = 1
    /\ others = <<>>

NextDeath == CheckCollisions

\* one collision check on a room where somebody dies with a body and a score
SpecDeath == InitDeath /\ [][NextDeath]_vars

\* the rooms two players enter a tick in: head to head in the middle of the
\* world, without scores, the first with no body and the second with any
RoomsAtTick ==
    { rm \in RoomsAtDeath :
        /\ rm.players["p1"].x = WORLD_WIDTH \div 2
        /\ rm.players["p1"].bodySegments = <<>>
        /\ rm.players["p1"].score = 0
        /\ rm.players["p2"].score = 0 }

\* two players that have joined and stand head to head, before a tick
InitPair ==
    /\ clientPrediction = NewClientPrediction(CLIENT_WORLD_WIDTH \div 2,
                                              CLIENT_WORLD_HEIGHT \div 2, 0)
    /\ isAlive = TRUE
    /\ lantern = [x |-> CLIENT_WORLD_WIDTH \div 2, y |-> CLIENT_WORLD_HEIGHT \div 2]
    /\ emitted = Nothing
    /\ gameState = [tick |-> 0, player |-> Nothing]
    /\ reconciled = "none"
    /\ snapshots = <<>>
    /\ rendered = Nothing
    /\ room \in RoomsAtTick
    /\ now = 0
    /\ sockets = {}
    /\ horizon = MaxPairRun
    /\ pc = "idle"
    /\ playersArray = <<"p1", "p2">>
    /\ deaths = <<>>
    /\ emits = <<>>
    /\ snapshot = buildGameSnapshotForRoom(room, now)
    /\ received = Nothing
    /\ produced = [tick |-> room.currentTick]
    /\ HEAD_COLLISION_BOTH_DIE \in BOOLEAN
    /\ rooms = <<[id |-> 1, playerCount |-> Len(room.playerOrder)]>>
    /\ roomCounter = 1
    /\ others = <<>>

\* two players head to head, followed for MaxPairRun ticks
SpecPair == InitPair /\ [][NextRoom]_vars

\* where and how the two movement steps start: in the middle of the client's
\* world or close to the west border, heading east or west, with a body to
\* burn or with none
LockstepStarts ==
    [ x : {CLIENT_WORLD_WIDTH \div 2, RADIUS + RADIUS \div 4},
      y : {CLIENT_WORLD_HEIGHT \div 2},
      angle : {0, PI},
      targetLength : {MIN_BODY_LENGTH, STARTING_BODY_LENGTH} ]

\* a client and a server that hold the same kinematic state of one player
InitLockstep ==
    /\ \E start \in LockstepStarts :
          /\ clientPrediction = NewClientPrediction(start.x, start.y, start.angle)
          /\ lantern = [x |-> start.x, y |-> start.y]
          /\ room = [NewGameRoom EXCEPT
                        !.players = ("p1" :> [createPlayer("p1", start, start.angle) EXCEPT
                                                !.hasJoined = TRUE,
                                                !.targetLength = start.targetLength]),
                        !.playerOrder = <<"p1">>]
    /\ isAlive = TRUE
    /\ emitted = Nothing
    /\ gameState = [tick |-> 0, player |-> Nothing]
    /\ reconciled = "none"
    /\ snapshots = <<>>
    /\ rendered = Nothing
    /\ now = 0
    /\ sockets = {}
    /\ horizon = 0
    /\ pc = "lockstep"
    /\ playersArray = <<>>
    /\ deaths = <<>>
    /\ emits = <<>>
    /\ snapshot = Nothing
    /\ received = Nothing
    /\ produced = Nothing
    /\ HEAD_COLLISION_BOTH_DIE = FALSE
    /\ rooms = <<[id |-> 1, playerCount |-> Len(room.playerOrder)]>>
    /\ roomCounter = 1
    /\ others = <<>>

NextLockstep == MoveBoth

\* the client's prediction and the server's movement on the same inputs
SpecLockstep == InitLockstep /\ [][NextLockstep]_vars

\* one frame of a connected scene with the pointer held to the east
HeldFrame(cp) ==
    LET sequence == cp.inputSequence + 1
    IN  [processInput([cp EXCEPT !.inputSequence = sequence], 100, 0, FALSE, 16, sequence)
            EXCEPT !.inputSequence = sequence + 1]

\* such frames until the given number of them has run
RECURSIVE FramesUntil(_, _)
FramesUntil(cp, frames) ==
    IF cp.inputSequence >= 2 * frames THEN cp ELSE FramesUntil(HeldFrame(cp), frames)

\* the same, taken sixteen frames at a time
RECURSIVE FramesFor(_, _)
FramesFor(cp, frames) ==
    IF cp.inputSequence + 32 >= 2 * frames THEN FramesUntil(cp, frames)
    ELSE FramesFor(FramesUntil(cp, cp.inputSequence \div 2 + 16), frames)

\* a scene that has run HistoryFrom frames or one more since it was created,
\* and has had no snapshot of its own player since
InitHistory ==
    /\ \E frames \in HistoryFrom..(HistoryFrom + 1) :
          /\ clientPrediction = FramesFor(NewClientPrediction(CLIENT_WORLD_WIDTH \div 2,
                                                              CLIENT_WORLD_HEIGHT \div 2, 0),
                                          frames)
          /\ emitted = [sequence |-> 2 * frames, mouseX |-> 100, mouseY |-> 0,
                        boosting |-> FALSE]
    /\ isAlive = TRUE
    /\ lantern = [x |-> Predicted(clientPrediction).x, y |-> Predicted(clientPrediction).y]
    /\ gameState = [tick |-> 0, player |-> Nothing]
    /\ reconciled = "none"
    /\ snapshots = <<>>
    /\ rendered = Nothing
    /\ room = NewGameRoom
    /\ now = 0
    /\ sockets = {}
    /\ horizon = 0
    /\ pc = "history"
    /\ playersArray = <<>>
    /\ deaths = <<>>
    /\ emits = <<>>
    /\ snapshot = Nothing
    /\ received = Nothing
    /\ produced = Nothing
    /\ HEAD_COLLISION_BOTH_DIE = FALSE
    /\ rooms = <<[id |-> 1, playerCount |-> Len(room.playerOrder)]>>
    /\ roomCounter = 1
    /\ others = <<>>

\* the scene alone, its input history full or nearly so
SpecHistory == InitHistory /\ [][NextClient]_vars

\* where createPlayer places a player that will coast: the centre of the
\* world or a spot up to 750 px from it
DragStarts ==
    { [x |-> WORLD_WIDTH \div 2, y |-> WORLD_HEIGHT \div 2],
      [x |-> 250000, y |-> 275000], [x |-> 350000, y |-> 325000] }

\* the room after one player connected at the given spot, joined and sent
\* one input: east, at a quarter of the full distance (speed 50)
JoinedSteering ==
    [ start \in DragStarts |->
        [NewGameRoom EXCEPT
            !.players = ("p1" :> [createPlayer("p1", start, 0) EXCEPT
                                    !.hasJoined = TRUE,
                                    !.input = [sequence |-> 1, mouseX |-> 25, mouseY |-> 0,
                                               boosting |-> FALSE],
                                    !.lastProcessedInput = 1]),
            !.playerOrder = <<"p1">>] ]

\* that room one tick later
SteeringAlone ==
    [ start \in DragStarts |-> IdleLoop(JoinedSteering[start], 1000 \div TICK_RATE) ]

\* the room once the player has sent the zero input
CoastingAlone(rm) ==
    [rm EXCEPT !.players["p1"].input = [sequence |-> 2, mouseX |-> 0, mouseY |-> 0,
                                        boosting |-> FALSE],
               !.players["p1"].lastProcessedInput = 2]

\* the room as the last tick left it, before the zero input came in
BeforeZeroInput(rm) ==
    [rm EXCEPT !.players["p1"].input = [sequence |-> 1, mouseX |-> 25, mouseY |-> 0,
                                        boosting |-> FALSE],
               !.players["p1"].lastProcessedInput = 1]

\* one player that moved at speed 50 for a tick and has just sent the zero
\* input
InitDrag ==
    /\ clientPrediction = NewClientPrediction(CLIENT_WORLD_WIDTH \div 2,
                                              CLIENT_WORLD_HEIGHT \div 2, 0)
    /\ isAlive = TRUE
    /\ lantern = [x |-> CLIENT_WORLD_WIDTH \div 2, y |-> CLIENT_WORLD_HEIGHT \div 2]
    /\ emitted = Nothing
    /\ gameState = [tick |-> 0, player |-> Nothing]
    /\ reconciled = "none"
    /\ snapshots = <<>>
    /\ rendered = Nothing
    /\ \E start \in DragStarts : room = CoastingAlone(SteeringAlone[start])
    /\ now = room.currentTick * (1000 \div TICK_RATE)
    /\ horizon = room.currentTick + DragSeconds * TICK_RATE
    /\ produced = [tick |-> room.currentTick]
    /\ snapshot = buildGameSnapshotForRoom(BeforeZeroInput(room), now)
    /\ sockets = {}
    /\ pc = "idle"
    /\ playersArray = <<"p1">>
    /\ deaths = <<>>
    /\ emits = <<>>
    /\ received = [event |-> "playerInput", from |-> "p1"]
    /\ HEAD_COLLISION_BOTH_DIE = FALSE
    /\ rooms = <<[id |-> 1, playerCount |-> Len(room.playerOrder)]>>
    /\ roomCounter = 1
    /\ others = <<>>

NextDrag == Tick

\* a player that stopped steering, followed for DragSeconds of ticks
SpecDrag == InitDrag /\ [][NextDrag]_vars

\* a joined player as play leaves it near the border: at rest facing the east
\* border 25 or 30 px away, or coasting south at the base speed 25 px from
\* the south border after a zero input
BorderStarts ==
    { [x |-> WORLD_WIDTH - 2500, y |-> WORLD_HEIGHT \div 2, angle |-> 0, sequence |-> 0,
       currentSpeed |-> 0],
      [x |-> WORLD_WIDTH - 3000, y |-> WORLD_HEIGHT \div 2, angle |-> 0, sequence |-> 0,
       currentSpeed |-> 0],
      [x |-> WORLD_WIDTH \div 2, y |-> WORLD_HEIGHT - 2500, angle |-> PI \div 2,
       sequence |-> 1, currentSpeed |-> PLAYER_CONFIG_BASE_SPEED] }

InitBorder ==
    /\ clientPrediction = NewClientPrediction(CLIENT_WORLD_WIDTH \div 2,
                                              CLIENT_WORLD_HEIGHT \div 2, 0)
    /\ isAlive = TRUE
    /\ lantern = [x |-> CLIENT_WORLD_WIDTH \div 2, y |-> CLIENT_WORLD_HEIGHT \div 2]
    /\ emitted = Nothing
    /\ gameState = [tick |-> 0, player |-> Nothing]
    /\ reconciled = "none"
    /\ snapshots = <<>>
    /\ rendered = Nothing
    /\ \E start \in BorderStarts :
          room = [NewGameRoom EXCEPT
                    !.players = ("p1" :> [createPlayer("p1", start, start.angle) EXCEPT
                                            !.hasJoined = TRUE,
                                            !.input.sequence = start.sequence,
                                            !.lastProcessedInput = start.sequence,
                                            !.currentSpeed = start.currentSpeed,
                                            !.speed = start.currentSpeed]),
                    !.playerOrder = <<"p1">>]
    /\ now = 0
    /\ sockets = {}
    /\ horizon = MaxBorderRun
    /\ pc = "idle"
    /\ playersArray = <<"p1">>
    /\ deaths = <<>>
    /\ emits = <<>>
    /\ snapshot = buildGameSnapshotForRoom(room, 0)
    /\ received = Nothing
    /\ produced = [tick |-> room.currentTick]
    /\ HEAD_COLLISION_BOTH_DIE = FALSE
    /\ rooms = <<[id |-> 1, playerCount |-> Len(room.playerOrder)]>>
    /\ roomCounter = 1
    /\ others = <<>>

NextBorder ==
    \/ \E playerId \in PlayerIds : PlayerInput(playerId)
    \/ Tick

\* a player near the border, steered and ticked until it reaches the margin
SpecBorder == InitBorder /\ [][NextBorder]_vars

\* the server as started, with two sockets about to connect
InitLobby ==
    /\ clientPrediction = NewClientPrediction(CLIENT_WORLD_WIDTH \div 2,
                                              CLIENT_WORLD_HEIGHT \div 2, 0)
    /\ isAlive = TRUE
    /\ lantern = [x |-> CLIENT_WORLD_WIDTH \div 2, y |-> CLIENT_WORLD_HEIGHT \div 2]
    /\ emitted = Nothing
    /\ gameState = [tick |-> 0, player |-> Nothing]
    /\ reconciled = "none"
    /\ snapshots = <<>>
    /\ rendered = Nothing
    /\ room = NewGameRoom
    /\ now = 0
    /\ sockets = {"p1", "p2"}
    /\ horizon = MaxLobbyRun
    /\ pc = "idle"
    /\ playersArray = <<>>
    /\ deaths = <<>>
    /\ emits = <<>>
    /\ snapshot = Nothing
    /\ received = Nothing
    /\ produced = Nothing
    /\ HEAD_COLLISION_BOTH_DIE = FALSE
    /\ rooms = <<[id |-> 1, playerCount |-> Len(room.playerOrder)]>>
    /\ roomCounter = 1
    /\ others = <<>>

\* two sockets that connect, join and play in any order for MaxLobbyRun ticks
SpecLobby == InitLobby /\ [][NextServer]_vars

\* where the one player of each of two rooms is: 20 px from pellet 0 of its
\* room, or at the centre of the world
TwinPoints == { [x |-> 300000, y |-> 307000], [x |-> WORLD_WIDTH \div 2, y |-> WORLD_HEIGHT \div 2] }

\* a room as created, with one joined player in play
RoomOfOne(playerId, at, size) ==
    [NewGameRoom EXCEPT !.players = (playerId :> PlayerInPlay(playerId, at, size, TRUE)),
                        !.playerOrder = <<playerId>>]

\* two rooms of the manager with a player each, at the same place or not; the
\* sockets of the first room are followed
InitTwoRooms ==
    /\ clientPrediction = NewClientPrediction(CLIENT_WORLD_WIDTH \div 2,
                                              CLIENT_WORLD_HEIGHT \div 2, 0)
    /\ isAlive = TRUE
    /\ lantern = [x |-> CLIENT_WORLD_WIDTH \div 2, y |-> CLIENT_WORLD_HEIGHT \div 2]
    /\ emitted = Nothing
    /\ gameState = [tick |-> 0, player |-> Nothing]
    /\ reconciled = "none"
    /\ snapshots = <<>>
    /\ rendered = Nothing
    /\ \E at \in TwinPoints, size \in 0..MaxBody : room = RoomOfOne("p1", at, size)
    /\ \E at \in TwinPoints, size \in 0..MaxBody : others = << RoomOfOne("p2", at, size) >>
    /\ now = 0
    /\ sockets = {}
    /\ horizon = MaxTwinRun
    /\ pc = "idle"
    /\ playersArray = <<"p1">>
    /\ deaths = <<>>
    /\ emits = <<>>
    /\ snapshot = buildGameSnapshotForRoom(room, 0)
    /\ received = Nothing
    /\ produced = [tick |-> room.currentTick]
    /\ HEAD_COLLISION_BOTH_DIE = FALSE
    /\ rooms = <<[id |-> 1, playerCount |-> 1], [id |-> 2, playerCount |-> 1]>>
    /\ roomCounter = 2

\* the messages of the sockets of the first room, and the ticks
NextTwoRooms ==
    \/ \E playerId \in PlayerIds : JoinGame(playerId)
    \/ \E playerId \in PlayerIds : PlayerInput(playerId)
    \/ \E playerId \in PlayerIds : Ping(playerId)
    \/ \E playerId \in PlayerIds : RequestRespawn(playerId)
    \/ Tick

\* two rooms ticked by the same gameLoop
SpecTwoRooms == InitTwoRooms /\ [][NextTwoRooms]_vars

\* the room manager as constructed, with its one room, before any connection;
\* the rooms are followed by their playerCount alone
InitRooms ==
    /\ clientPrediction = NewClientPrediction(CLIENT_WORLD_WIDTH \div 2,
                                              CLIENT_WORLD_HEIGHT \div 2, 0)
    /\ isAlive = TRUE
    /\ lantern = [x |-> CLIENT_WORLD_WIDTH \div 2, y |-> CLIENT_WORLD_HEIGHT \div 2]
    /\ emitted = Nothing
    /\ gameState = [tick |-> 0, player |-> Nothing]
    /\ reconciled = "none"
    /\ snapshots = <<>>
    /\ rendered = Nothing
    /\ room = NewGameRoom
    /\ now = 0
    /\ sockets = {}
    /\ horizon = 0
    /\ pc = "rooms"
    /\ playersArray = <<>>
    /\ deaths = <<>>
    /\ emits = <<>>
    /\ snapshot = Nothing
    /\ received = Nothing
    /\ produced = Nothing
    /\ HEAD_COLLISION_BOTH_DIE = FALSE
    /\ rooms = createRoom([rooms |-> <<>>, roomCounter |-> 0]).rooms
    /\ roomCounter = 1
    /\ others = <<>>

NextRooms ==
    \/ ConnectToRooms
    \/ \E i \in 1..MaxRoomCounter : DisconnectFromRoom(i)
    \/ CleanupRooms

SpecRooms == InitRooms /\ [][NextRooms]_vars

----------------------------------------------------------------------------
(* Claims about the client *)

Last(h) == h[Len(h)]

\* a step of Frame: a sequence number was handed out
IsFrameStep == clientPrediction'.inputSequence # clientPrediction.inputSequence

\* a step of HandleGameState in which reconcile ran on the prediction as it was
IsReconcileStep ==
    /\ gameState'.tick # gameState.tick
    /\ isAlive
    /\ gameState'.player.alive

\* the acknowledged sequence of the snapshot being handled is in the history
AckIsStored ==
    \E i \in 1..Len(clientPrediction.inputHistory) :
        clientPrediction.inputHistory[i].input.sequence = gameState'.player.lastProcessedInput

\* the stored prediction of the acknowledged input
AckedEntry ==
    CHOOSE i \in 1..Len(clientPrediction.inputHistory) :
        clientPrediction.inputHistory[i].input.sequence = gameState'.player.lastProcessedInput

\* the squared distance between the server position of the snapshot being
\* handled and the point (px, py)
ServerDist2(px, py) ==
    (gameState'.player.x - px) * (gameState'.player.x - px)
  + (gameState'.player.y - py) * (gameState'.player.y - py)

\* C5: the playerInput message a frame emits carries the sequence number under
\* which that frame's prediction was stored in the input history.
C5_SentCarriesStoredSequence ==
    [][ (IsFrameStep /\ emitted' # emitted)
        => emitted'.sequence = Last(clientPrediction'.inputHistory).input.sequence ]_vars

\* C6: a frame rendered while a correction is outstanding shows at most the
\* fraction RECONCILIATION_SMOOTHING of that correction on top of the freshly
\* predicted position (one unit of rounding allowed), never the whole of it.
C6_RenderAbsorbsGradually ==
    [][ (IsFrameStep /\ Abs(clientPrediction.correctionX) >= 100)
        => LET pending == clientPrediction.correctionX
               applied == pending - clientPrediction'.correctionX
               pureX == clientPrediction'.x - applied
           IN  Abs(lantern'.x - pureX) * 100
                   <= Abs(pending) * RECONCILIATION_SMOOTHING + 100 ]_vars

\* C7: when the acknowledged input is found and the error exceeds
\* MAX_POSITION_ERROR, the correction is cleared, exactly the inputs after the
\* acknowledged one remain, in their order, each stored prediction is the
\* movement model applied for one server tick to the state before it (the
\* server state for the first), and the predicted state is the last of them.
C7_SnapAndReplay ==
    [][ (IsReconcileStep /\ AckIsStored
         /\ ServerDist2(clientPrediction.inputHistory[AckedEntry].predictedX,
                        clientPrediction.inputHistory[AckedEntry].predictedY)
              > MAX_POSITION_ERROR * MAX_POSITION_ERROR)
        => LET s == gameState'.player
               h == clientPrediction.inputHistory
               h2 == clientPrediction'.inputHistory
               n == Len(h) - AckedEntry
               start == [clientPrediction EXCEPT !.x = s.x, !.y = s.y,
                             !.currentAngle = s.angle, !.currentSpeed = s.speed]
               Before(i) == IF i = 1 THEN start
                            ELSE [start EXCEPT !.x = h2[i - 1].predictedX,
                                               !.y = h2[i - 1].predictedY,
                                               !.currentAngle = h2[i - 1].predictedAngle,
                                               !.currentSpeed = h2[i - 1].predictedSpeed]
               After(i) == PredictMove(Before(i), h2[i].input.mouseX, h2[i].input.mouseY,
                                       h2[i].input.boosting, 1000 \div SERVER_TICK_RATE)
               final == IF n = 0 THEN start ELSE After(n)
           IN  /\ Len(h2) = n
               /\ \A i \in 1..n :
                    /\ h2[i].input = h[AckedEntry + i].input
                    /\ h2[i].predictedX = After(i).x
                    /\ h2[i].predictedY = After(i).y
                    /\ h2[i].predictedAngle = After(i).currentAngle
                    /\ h2[i].predictedSpeed = After(i).currentSpeed
               /\ clientPrediction'.x = final.x
               /\ clientPrediction'.y = final.y
               /\ clientPrediction'.currentAngle = final.currentAngle
               /\ clientPrediction'.currentSpeed = final.currentSpeed
               /\ clientPrediction'.correctionX = 0
               /\ clientPrediction'.correctionY = 0 ]_vars

\* a snap with replay has run and at least two inputs were replayed
C7_Witness ==
    /\ reconciled = "replay"
    /\ Len(clientPrediction.inputHistory) >= 2

\* C8: after reconcile found the acknowledged input, no stored input has a
\* sequence up to the acknowledged one and every input stored before with a
\* greater sequence is still stored.
C8_AckedDiscarded ==
    [][ (IsReconcileStep /\ AckIsStored)
        => LET ack == gameState'.player.lastProcessedInput
               h == clientPrediction.inputHistory
               h2 == clientPrediction'.inputHistory
           IN  /\ \A j \in 1..Len(h2) : h2[j].input.sequence > ack
               /\ \A i \in 1..Len(h) :
                    h[i].input.sequence > ack
                    => \E j \in 1..Len(h2) : h2[j].input = h[i].input ]_vars

\* reconcile found an acknowledged input that was not the oldest one, and
\* inputs after it remain
C8_Witness ==
    /\ reconciled \in {"noise", "smooth", "replay"}
    /\ gameState.player.lastProcessedInput >= 2
    /\ Len(clientPrediction.inputHistory) >= 1

\* C9: when the acknowledged sequence is not in the history, reconcile takes
\* the server's position, heading and speed and clears the correction if the
\* server position is further than MAX_POSITION_ERROR from the predicted
\* position, and otherwise changes nothing; the history is kept either way.
C9_MissingAckFallback ==
    [][ (IsReconcileStep /\ ~AckIsStored)
        => LET s == gameState'.player
           IN  IF ServerDist2(clientPrediction.x, clientPrediction.y)
                     > MAX_POSITION_ERROR * MAX_POSITION_ERROR
               THEN clientPrediction' =
                        [clientPrediction EXCEPT !.x = s.x, !.y = s.y,
                             !.currentAngle = s.angle, !.currentSpeed = s.speed,
                             !.correctionX = 0, !.correctionY = 0]
               ELSE clientPrediction' = clientPrediction ]_vars

\* the fallback snapped while inputs were stored and a correction had been pending
C9_Witness ==
    /\ reconciled = "missingSnap"
    /\ Len(clientPrediction.inputHistory) >= 1
    /\ clientPrediction.x = gameState.player.x

----------------------------------------------------------------------------
(* Claims about the collision check *)

IsCollisionCheck == pc = "collide" /\ pc' = "done"

HeadsInContact(rm, a, b) ==
    DistLT(rm.players[a].x - rm.players[b].x, rm.players[a].y - rm.players[b].y,
           2 * PLAYER_CONFIG_RADIUS)

BodySize(rm, id) == Len(rm.players[id].bodySegments)

DeadIn(rm) == {id \in DOMAIN rm.players : ~rm.players[id].alive}

\* the room with a and b exchanged in the iteration order
SwapOrder(rm, a, b) ==
    [rm EXCEPT !.playerOrder =
        [k \in 1..Len(rm.playerOrder) |->
            IF rm.playerOrder[k] = a THEN b
            ELSE IF rm.playerOrder[k] = b THEN a
            ELSE rm.playerOrder[k]]]

\* the room after the first k of the collected deaths have been applied
AfterDeaths(rm, time, ds, k) ==
    ProcessDeaths([room |-> rm, emits |-> <<>>], time, SubSeq(ds, 1, k), 1).room

\* the killer named by the death entry that is applied to the victim: its first
FirstKiller(ds, victim) ==
    ds[CHOOSE k \in 1..Len(ds) :
            /\ ds[k].player = victim
            /\ \A j \in 1..(k - 1) : ds[j].player # victim].killer

\* the playerDied event of a player among the events of the last check
DiedEvents(id) ==
    {k \in 1..Len(emits) : emits[k].event = "playerDied" /\ emits[k].playerId = id}

DiedHeadToHead(id) == \E k \in DiedEvents(id) : emits[k].cause = "head_to_head"

\* the number of body segments a player had when it died: what it dropped,
\* less the drops at the head
SizeAtDeath(id, headDrops) ==
    emits[CHOOSE k \in DiedEvents(id) : TRUE].foodDropped - headDrops

\* C1 as claimed: once an entity's death has been applied in a tick's
\* collision resolution, its kill count is not incremented by the deaths
\* applied after it in that tick
C1_NoKillOnceDead ==
    [][IsCollisionCheck =>
        \A k \in 1..Len(deaths') :
            \A p \in DOMAIN room.players :
                ~AfterDeaths(room, now, deaths', k - 1).players[p].alive =>
                    AfterDeaths(room, now, deaths', k).players[p].kills =
                        AfterDeaths(room, now, deaths', k - 1).players[p].kills]_vars

\* C1 as amended: an entity whose kill count a tick's collision resolution
\* increments was alive when that tick's checks started, and it gains exactly
\* one kill for each entity whose applied death names it as the killer, also
\* when its own death was applied first
C1_KillersAliveAtCheck ==
    [][IsCollisionCheck =>
        \A p \in DOMAIN room.players :
            /\ room'.players[p].kills =
                  room.players[p].kills +
                  Cardinality({ v \in DeadIn(room') \ DeadIn(room) :
                                  v # p /\ FirstKiller(deaths', v) = p })
            /\ room'.players[p].kills > room.players[p].kills => room.players[p].alive]_vars

\* an entity that died in the check and was credited with a kill in it
C1_Witness ==
    /\ pc = "done"
    /\ \E p \in DOMAIN room.players :
          /\ DiedEvents(p) # {}
          /\ room.players[p].kills > 0

\* C2: in smaller-dies mode, two alive entities of equal body size with heads
\* in contact are both dead after the check, and the same entities are dead
\* after the check when the two are iterated in the other order
C2_TieBothDie ==
    [][(IsCollisionCheck /\ ~HEAD_COLLISION_BOTH_DIE) =>
        \A a, b \in DOMAIN room.players \ DeadIn(room) :
            (a # b /\ HeadsInContact(room, a, b) /\ BodySize(room, a) = BodySize(room, b)) =>
                /\ {a, b} \subseteq DeadIn(room')
                /\ DeadIn(checkPlayerCollisionsInRoom(
                            [room |-> SwapOrder(room, a, b), emits |-> <<>>],
                            now, HEAD_COLLISION_BOTH_DIE).room) = DeadIn(room')]_vars

\* two entities of equal size that died head to head in smaller-dies mode
C2_Witness ==
    /\ pc = "done"
    /\ ~HEAD_COLLISION_BOTH_DIE
    /\ DiedHeadToHead("p1") /\ DiedHeadToHead("p2")
    /\ SizeAtDeath("p1", 1) = SizeAtDeath("p2", 1)

\* C3: in smaller-dies mode, of two alive entities with heads in contact and
\* different body sizes the one with fewer segments is dead after the check,
\* no death of the other is collected for this head-to-head collision, and
\* with only the two in the room and neither at the border the other is alive
C3_SmallerDies ==
    [][(IsCollisionCheck /\ ~HEAD_COLLISION_BOTH_DIE) =>
        \A a, b \in DOMAIN room.players \ DeadIn(room) :
            (HeadsInContact(room, a, b) /\ BodySize(room, a) < BodySize(room, b)) =>
                /\ a \in DeadIn(room')
                /\ \A k \in 1..Len(deaths') :
                      ~(deaths'[k].player = b /\ deaths'[k].cause = "head_to_head"
                            /\ deaths'[k].killer = a)
                /\ ( /\ DOMAIN room.players = {a, b}
                     /\ ~isAtWorldBorder(room.players[a])
                     /\ ~isAtWorldBorder(room.players[b]) ) => b \notin DeadIn(room')]_vars

\* the shorter of two entities died head to head and the longer lives
C3_Witness ==
    /\ pc = "done"
    /\ ~HEAD_COLLISION_BOTH_DIE
    /\ DOMAIN room.players = {"p1", "p2"}
    /\ DiedHeadToHead("p1")
    /\ room.players["p2"].alive
    /\ SizeAtDeath("p1", 1) < BodySize(room, "p2")

\* C4: in both-die mode, two alive entities with heads in contact are both
\* dead after the check, whatever their sizes and their order
C4_BothDie ==
    [][(IsCollisionCheck /\ HEAD_COLLISION_BOTH_DIE) =>
        \A a, b \in DOMAIN room.players \ DeadIn(room) :
            (a # b /\ HeadsInContact(room, a, b)) =>
                /\ {a, b} \subseteq DeadIn(room')
                /\ {a, b} \subseteq DeadIn(checkPlayerCollisionsInRoom(
                            [room |-> SwapOrder(room, a, b), emits |-> <<>>],
                            now, HEAD_COLLISION_BOTH_DIE).room)]_vars

\* two entities of different sizes that both died head to head in both-die mode
C4_Witness ==
    /\ pc = "done"
    /\ HEAD_COLLISION_BOTH_DIE
    /\ DiedHeadToHead("p1") /\ DiedHeadToHead("p2")
    /\ SizeAtDeath("p1", 1) > SizeAtDeath("p2", 1)

----------------------------------------------------------------------------
(* Claims about the server's snapshots *)

\* C10: in every snapshot the server emits, every entity has at least zero
\* and at most targetLength body segments
C10_SnapshotBodyWithinTarget ==
    snapshot # Nothing =>
        \A id \in DOMAIN snapshot.players :
            /\ 0 <= Len(snapshot.players[id].bodySegments)
            /\ Len(snapshot.players[id].bodySegments) <= snapshot.players[id].targetLength

----------------------------------------------------------------------------
(* Claims about the trail and the body *)

\* a step of the game loop
IsTickStep == room'.currentTick # room.currentTick

\* the players the game loop updated in a tick step and left alive
UpdatedAlive ==
    {id \in DOMAIN room.players \cap DOMAIN room'.players :
        room.players[id].alive /\ room'.players[id].alive}

\* the length of the trail between history[i] and history[last]
RECURSIVE ArcBlock(_, _, _)
ArcBlock(history, i, last) ==
    IF i >= last THEN 0
    ELSE Hypot(history[i].x - history[i + 1].x, history[i].y - history[i + 1].y)
         + ArcBlock(history, i + 1, last)

\* the arc length of a trail from history[i] on, taken twenty records at a time
RECURSIVE ArcLength(_, _)
ArcLength(history, i) ==
    IF i >= Len(history) THEN 0
    ELSE ArcBlock(history, i, Min(i + 20, Len(history))) + ArcLength(history, i + 20)

\* the arc length n segments take
ArcNeeded(n) == IF n = 0 THEN 0 ELSE FIRST_SEGMENT_GAP + (n - 1) * BODY_SEGMENT_SPACING

\* C11: after every tick, for every entity the tick updated and left alive,
\* the trimmed trail is at least as long as the n segments asked for need,
\* n = min(previous segment count + 1, targetLength), and n segments came out
C11_TrailNeverStarves ==
    [][IsTickStep =>
        \A id \in UpdatedAlive :
            LET n == Min(Len(room.players[id].bodySegments) + 1,
                         room.players[id].targetLength)
            IN  /\ ArcLength(room'.players[id].positionHistory, 1) >= ArcNeeded(n)
                /\ Len(room'.players[id].bodySegments) = n]_vars

\* C12: across a tick, the number of body segments of an entity that is alive
\* before and after it changes by at most one
C12_BodyChangesByOne ==
    [][IsTickStep =>
        \A id \in UpdatedAlive :
            Abs(Len(room'.players[id].bodySegments) - Len(room.players[id].bodySegments)) <= 1]_vars

----------------------------------------------------------------------------
(* Claims about respawning *)

\* the event of the given kind that the last handler or tick emitted about a player
Emitted(events, kind, id) ==
    \E k \in 1..Len(events) : events[k].event = kind /\ events[k].playerId = id

\* a step in which the server handled the given socket event from a player
Handles(kind, id) == received' = [event |-> kind, from |-> id]

C14_RespawnWhenDue ==
    /\ [][\A id \in DOMAIN room.players :
            ~room.players[id].alive =>
                /\ IsTickStep =>
                      (Emitted(emits', "playerRespawned", id) <=> now' >= room.players[id].respawnTime)
                /\ (~IsTickStep /\ id \in DOMAIN room'.players) => ~room'.players[id].alive]_vars
    /\ \A id \in PlayerIds :
          (id \in DOMAIN room.players /\ ~room.players[id].alive)
              ~> (id \notin DOMAIN room.players \/ room.players[id].alive)

\* a tick has respawned a player at the very time its respawn was due, after
\* an earlier tick had left it dead
C14_Witness ==
    /\ received = Nothing
    /\ room.currentTick = 2
    /\ now = RESPAWN_DELAY
    /\ Emitted(emits, "playerRespawned", "p1")
    /\ room.players["p1"].alive

\* C15: the snapshot of the tick that respawns a joined entity shows it alive
\* with score 0, targetLength STARTING_BODY_LENGTH and STARTING_BODY_LENGTH
\* body segments
C15_RespawnedWithBody ==
    [][IsTickStep =>
        \A id \in DOMAIN snapshot'.players :
            Emitted(emits', "playerRespawned", id) =>
                /\ snapshot'.players[id].alive
                /\ snapshot'.players[id].score = 0
                /\ snapshot'.players[id].targetLength = STARTING_BODY_LENGTH
                /\ Len(snapshot'.players[id].bodySegments) = STARTING_BODY_LENGTH]_vars

----------------------------------------------------------------------------
(* Claims about the socket handlers *)

\* the room and the events a death of the player on the border would leave now
BorderDeath(id) ==
    killPlayerInRoom([room |-> room, emits |-> <<>>], now, id, "world_border", None)

\* the step left behind what a border death of the player leaves behind: the
\* same pellets, one for each body segment and the bonus pellets at the head,
\* and the same died event but for its cause, disconnect
DiedAsOnBorder(id) ==
    /\ room'.food = BorderDeath(id).room.food
    /\ Cardinality(DOMAIN room'.food) =
          Cardinality(DOMAIN room.food) + Len(room.players[id].bodySegments)
              + Min(5, room.players[id].score \div 10 + 1)
    /\ Len(emits') >= 1
    /\ emits'[1] = [BorderDeath(id).emits[1] EXCEPT !.cause = "disconnect"]

\* C18 as claimed: the disconnect of an alive entity leaves the pellets and
\* the died event of a border death, with cause disconnect, and removes it
C18_DisconnectDropsBody ==
    [][\A id \in DOMAIN room.players :
        (Handles("disconnect", id) /\ room.players[id].alive) =>
            /\ DiedAsOnBorder(id)
            /\ id \notin DOMAIN room'.players]_vars

\* C18 as amended: the disconnect of an alive entity that has joined leaves
\* the pellets and the died event of a border death, with cause disconnect;
\* the disconnect of any other entity leaves no pellet and no died event; the
\* entity is removed either way
C18_JoinedDisconnectDropsBody ==
    [][\A id \in DOMAIN room.players :
        Handles("disconnect", id) =>
            /\ id \notin DOMAIN room'.players
            /\ IF room.players[id].alive /\ room.players[id].hasJoined
               THEN DiedAsOnBorder(id)
               ELSE /\ room'.food = room.food
                    /\ ~Emitted(emits', "playerDied", id)]_vars

\* a joined player with body segments has disconnected and its death was
\* announced with the pellets of its body and of its head
C18_Witness ==
    /\ received = [event |-> "disconnect", from |-> "p1"]
    /\ Len(emits) = 2
    /\ emits[1].event = "playerDied"
    /\ emits[1].cause = "disconnect"
    /\ emits[1].foodDropped >= 2

\* C19: a playerInput message from an entity that is dead or has not joined
\* leaves its input slot, its lastProcessedInput and the whole room as they were
C19_DeadOrUnjoinedInputIgnored ==
    [][\A id \in DOMAIN room.players :
        (Handles("playerInput", id)
            /\ ~(room.players[id].alive /\ room.players[id].hasJoined)) =>
            /\ room'.players[id].input = room.players[id].input
            /\ room'.players[id].lastProcessedInput = room.players[id].lastProcessedInput
            /\ room' = room]_vars

\* a joined player that is dead has sent an input and its slot is as createPlayer left it
C19_Witness ==
    /\ received = [event |-> "playerInput", from |-> "p1"]
    /\ ~room.players["p1"].alive
    /\ room.players["p1"].hasJoined
    /\ room.players["p1"].input.sequence = 0
    /\ room.players["p1"].lastProcessedInput = 0

\* what a snapshot shows of the players of a room
Visible(rm) ==
    [ id \in DOMAIN rm.players |->
        [ x |-> rm.players[id].x,
          y |-> rm.players[id].y,
          bodySegments |-> rm.players[id].bodySegments,
          score |-> rm.players[id].score,
          alive |-> rm.players[id].alive,
          hasJoined |-> rm.players[id].hasJoined,
          lastProcessedInput |-> rm.players[id].lastProcessedInput ] ]

\* the events of a handler that went to the room and not to the sender alone
Broadcasts(events) == {k \in 1..Len(events) : events[k].event # "pong"}

\* C16: the receipt of an input, join, ping or respawn-request message changes
\* nothing that snapshots show of any entity and broadcasts no event
C16_MessagesOnlyFillSlot ==
    [][\A id \in DOMAIN room.players :
        \A kind \in {"playerInput", "joinGame", "ping", "requestRespawn"} :
            Handles(kind, id) =>
                /\ Visible(room') = Visible(room)
                /\ Broadcasts(emits') = {}]_vars

\* C17: the entity that disconnects is still in the room when the disconnect
\* handler is done
C17_DisconnectOnlyMarks ==
    [][\A id \in DOMAIN room.players :
        Handles("disconnect", id) => id \in DOMAIN room'.players]_vars

----------------------------------------------------------------------------
(* Claims about the snapshots *)

\* a step in which a connection was accepted and its initial snapshot built
IsConnectStep == \E id \in PlayerIds : Handles("connection", id) /\ id \notin DOMAIN room.players

\* C20 as claimed: every snapshot built, by a tick or for a connected message,
\* has a tick number greater than the snapshot built before it, and a tick
\* builds exactly one broadcast snapshot, with the number of the tick
C20_TicksStrictlyIncrease ==
    [][ /\ (IsTickStep \/ IsConnectStep) =>
              (produced # Nothing => produced'.tick > produced.tick)
        /\ IsTickStep => snapshot'.tick = room'.currentTick
        /\ ~IsTickStep => snapshot' = snapshot ]_vars

\* C20 as amended: the broadcast snapshots have tick numbers that go up by one
\* from each to the next, one snapshot to a tick; the initial snapshot of a
\* connected message has the tick number of the room's counter, which is that
\* of the broadcast before it, so over all snapshots the numbers never go down
C20_BroadcastTicksIncrease ==
    [][ /\ IsTickStep =>
              /\ snapshot'.tick = room'.currentTick
              /\ room'.currentTick = room.currentTick + 1
              /\ snapshot # Nothing => snapshot'.tick = snapshot.tick + 1
              /\ produced # Nothing => produced'.tick > produced.tick
        /\ ~IsTickStep => snapshot' = snapshot
        /\ IsConnectStep =>
              /\ emits'[1].snapshot.tick = room.currentTick
              /\ produced'.tick = room.currentTick
              /\ snapshot # Nothing => emits'[1].snapshot.tick = snapshot.tick
              /\ produced # Nothing => produced'.tick = produced.tick ]_vars

\* a connection was accepted after the third tick and its initial snapshot
\* has the tick number of the last broadcast
C20_Witness ==
    /\ received = [event |-> "connection", from |-> "p1"]
    /\ snapshot # Nothing
    /\ snapshot.tick = 3
    /\ emits[1].snapshot.tick = 3

\* the entities of a room that have joined
JoinedIn(rm) == {id \in DOMAIN rm.players : rm.players[id].hasJoined}

\* C21: the entity map of the snapshot a tick builds is exactly the set of the
\* room's entities that have joined, alive or dead, and its scoreboard names
\* joined entities only
C21_SnapshotHoldsJoined ==
    [][ IsTickStep =>
          /\ DOMAIN snapshot'.players = JoinedIn(room')
          /\ \A k \in 1..Len(snapshot'.scoreboard) :
                snapshot'.scoreboard[k].id \in JoinedIn(room') ]_vars

\* a tick has built a snapshot of a room whose one entity is dead and has not
\* joined, and the snapshot holds no entity
C21_Witness ==
    /\ received = Nothing
    /\ room.currentTick >= 1
    /\ "p1" \in DOMAIN room.players
    /\ ~room.players["p1"].hasJoined
    /\ ~room.players["p1"].alive
    /\ DOMAIN snapshot.players = {}
    /\ snapshot.scoreboard = <<>>

----------------------------------------------------------------------------
(* Claims about the snapshot buffer *)

\* a step in which updateOtherPlayers has rendered anew
IsRenderStep == rendered' # rendered

\* a step in which a snapshot has been handed to addSnapshot
IsArrival == gameState'.tick # gameState.tick

\* C22: the interpolation factor is within [0,1], and at a render time earlier
\* than every buffered snapshot each other player is rendered with exactly its
\* values of the oldest buffered snapshot
C22_NeverExtrapolates ==
    [][ IsRenderStep =>
          /\ rendered'.t \in 0..1000
          /\ ( /\ snapshots # <<>>
               /\ \A i \in 1..Len(snapshots) : rendered'.renderTime < snapshots[i].serverTime )
             => rendered'.players =
                    [ id \in DOMAIN snapshots[1].players \ {"p1"} |->
                        playerStateToInterpolated(snapshots[1].players[id]) ] ]_vars

\* the buffer is in the order of its ticks
SortedByTick(buffer) == \A i \in 1..(Len(buffer) - 1) : buffer[i].tick <= buffer[i + 1].tick

\* how many snapshots of tick k a buffer holds
CountTick(buffer, k) == Cardinality({i \in 1..Len(buffer) : buffer[i].tick = k})

\* C23: the buffer is sorted by non-decreasing tick and holds at most
\* SNAPSHOT_BUFFER_SIZE snapshots; what an arrival leaves in it are snapshots
\* it held and the one that arrived, and what is missing of those has a tick
\* no higher than any tick kept
C23_BufferSortedAndBounded ==
    /\ [](SortedByTick(snapshots) /\ Len(snapshots) <= SNAPSHOT_BUFFER_SIZE)
    /\ [][ IsArrival =>
             \E k \in ArrivingTicks(snapshots) :
                LET all == Append(snapshots, SnapshotAt(k))
                IN  /\ Len(snapshots') = Min(Len(all), SNAPSHOT_BUFFER_SIZE)
                    /\ \A i \in 1..Len(snapshots') :
                          \E j \in 1..Len(all) : snapshots'[i] = all[j]
                    /\ \A j \in 1..Len(all) :
                          CountTick(snapshots', all[j].tick) <= CountTick(all, all[j].tick)
                    /\ \A j \in 1..Len(all) :
                          CountTick(snapshots', all[j].tick) < CountTick(all, all[j].tick)
                             => \A i \in 1..Len(snapshots') : all[j].tick <= snapshots'[i].tick
           ]_vars

\* a late snapshot, of tick 3, has arrived at a full buffer: it stands before
\* the snapshot of tick 4 and the snapshot of tick 2 is gone
C23_Witness ==
    /\ gameState.tick >= 1
    /\ Len(snapshots) = SNAPSHOT_BUFFER_SIZE
    /\ snapshots[1].tick = 3
    /\ snapshots[2].tick = 4

----------------------------------------------------------------------------
(* Claims about the movement model *)

\* C24: from the same kinematic state and on the same inputs with the same
\* elapsed time, the client's prediction and the server's movement have the
\* same position, heading and speed after every step
C24_SameMovement ==
    pc = "lockstep" =>
        /\ clientPrediction.x = room.players["p1"].x
        /\ clientPrediction.y = room.players["p1"].y
        /\ clientPrediction.currentAngle = room.players["p1"].angle
        /\ clientPrediction.currentSpeed = room.players["p1"].speed

\* the players that enter a tick alive with the boost flag set and their
\* targetLength at MIN_BODY_LENGTH, and are in the room alive after it
BoostingSpent ==
    { id \in DOMAIN room.players \cap DOMAIN room'.players :
        /\ room.players[id].alive
        /\ room'.players[id].alive
        /\ room.players[id].input.boosting
        /\ room.players[id].targetLength = MIN_BODY_LENGTH }

\* C25: an entity whose input has the boost flag set while its targetLength is
\* at MIN_BODY_LENGTH moves in that tick as it would with the flag not set,
\* at the base speed for its mouse offset when it steers, and the tick neither
\* lowers its targetLength nor drops a pellet (with the food at its cap a tick
\* adds no food but drops)
C25_NoFreeBoost ==
    [][ IsTickStep =>
          \A id \in BoostingSpent :
             LET player == room.players[id]
                 unboosted == updatePlayerMovement([player EXCEPT !.input.boosting = FALSE],
                                                   now' - now)
             IN  /\ room'.players[id].speed = unboosted.speed
                 /\ Hypot(player.input.mouseX, player.input.mouseY) > DEADZONE
                       => room'.players[id].speed =
                             (PLAYER_CONFIG_BASE_SPEED
                                * Min(Hypot(player.input.mouseX, player.input.mouseY), 100)) \div 100
                 /\ room'.players[id].x = unboosted.x
                 /\ room'.players[id].y = unboosted.y
                 /\ room'.players[id].targetLength >= player.targetLength
                 /\ room'.players[id].boostDropAccumulator = player.boostDropAccumulator
                 /\ Cardinality(DOMAIN room.food) >= MAX_FOOD_COUNT
                       => DOMAIN room'.food \subseteq DOMAIN room.food ]_vars

\* a tick has moved a player that steers east with the boost flag set and
\* has no body left to burn, at the base speed
C25_Witness ==
    /\ received = Nothing
    /\ room.currentTick > SpentFrom + 1
    /\ "p1" \in DOMAIN room.players
    /\ room.players["p1"].alive
    /\ room.players["p1"].input.boosting
    /\ room.players["p1"].input.mouseX = 100
    /\ room.players["p1"].targetLength = MIN_BODY_LENGTH
    /\ room.players["p1"].speed = PLAYER_CONFIG_BASE_SPEED

----------------------------------------------------------------------------
(* Claims about the food *)

\* a step that is one collection check
IsCollectionCheck == pc = "collect" /\ pc' = "done"

\* the alive entities within reach of a pellet when the check begins
WithinReach(rm, foodId) ==
    { id \in DOMAIN rm.players :
        /\ rm.players[id].alive
        /\ DistLT(rm.players[id].x - rm.food[foodId].x, rm.players[id].y - rm.food[foodId].y,
                  PLAYER_CONFIG_RADIUS + FOOD_RADIUS) }

\* the foodCollected events of a pellet, and those that credit an entity
CollectedEvents(foodId) ==
    {k \in 1..Len(emits') : emits'[k].event = "foodCollected" /\ emits'[k].foodId = foodId}

CreditedTo(id) ==
    {k \in 1..Len(emits') : emits'[k].event = "foodCollected" /\ emits'[k].playerId = id}

\* the sum of the values of the pellets a set of events names
RECURSIVE CreditOf(_)
CreditOf(events) ==
    IF events = {} THEN 0
    ELSE LET k == CHOOSE e \in events : TRUE
         IN  room.food[emits'[k].foodId].value + CreditOf(events \ {k})

\* C26: a pellet within (entityRadius + pelletRadius) of an alive entity at the
\* collection check is removed in that check and credits exactly one entity,
\* one of those within reach, however many are; an entity's score grows by the
\* values of the pellets credited to it and its targetLength by those values
\* times GROWTH_PER_FOOD; a pellet within nobody's reach stays
C26_PelletCreditsOne ==
    [][ IsCollectionCheck =>
          /\ \A foodId \in DOMAIN room.food :
                IF WithinReach(room, foodId) # {}
                THEN /\ foodId \notin DOMAIN room'.food
                     /\ Cardinality(CollectedEvents(foodId)) = 1
                     /\ \A k \in CollectedEvents(foodId) :
                           emits'[k].playerId \in WithinReach(room, foodId)
                ELSE /\ foodId \in DOMAIN room'.food
                     /\ CollectedEvents(foodId) = {}
          /\ \A id \in DOMAIN room.players :
                /\ room'.players[id].score = room.players[id].score + CreditOf(CreditedTo(id))
                /\ room'.players[id].targetLength =
                      room.players[id].targetLength + CreditOf(CreditedTo(id)) * GROWTH_PER_FOOD
        ]_vars

\* a check has run with both players alive and within reach of one pellet:
\* the pellet is gone and the first player alone was credited
C26_Witness ==
    /\ pc = "done"
    /\ \A id \in {"p1", "p2"} : id \in DOMAIN room.players /\ room.players[id].alive
    /\ room.players["p1"].x = 300000
    /\ room.players["p2"].x = 303000
    /\ Len(emits) = 1
    /\ emits[1].event = "foodCollected"
    /\ emits[1].playerId = "p1"
    /\ room.players["p1"].score = FOOD_BASE_VALUE
    /\ room.players["p2"].score = 0

\* the players a step kills
Killed == {id \in DOMAIN room.players : room.players[id].alive /\ ~room'.players[id].alive}

\* what the death of a player is to drop: its body segments and the bonus
DueDrops(id) ==
    Len(room.players[id].bodySegments) + Min(5, room.players[id].score \div 10 + 1)

RECURSIVE SumDueDrops(_)
SumDueDrops(ids) ==
    IF ids = {} THEN 0
    ELSE LET id == CHOOSE i \in ids : TRUE
         IN  DueDrops(id) + SumDueDrops(ids \ {id})

\* C27: each death adds to the room (body segments of the victim at death) +
\* min(5, floor(score/10) + 1) pellets, each of value DEATH_DROP_VALUE, and the
\* died event reports that number as the count of pellets dropped
C27_DeathDrops ==
    [][ IsCollisionCheck =>
          /\ DOMAIN room.food \subseteq DOMAIN room'.food
          /\ Cardinality(DOMAIN room'.food \ DOMAIN room.food) = SumDueDrops(Killed)
          /\ \A foodId \in DOMAIN room'.food \ DOMAIN room.food :
                room'.food[foodId].value = DEATH_DROP_VALUE
          /\ \A id \in Killed :
                /\ Cardinality({k \in 1..Len(emits') :
                                  emits'[k].event = "playerDied" /\ emits'[k].playerId = id}) = 1
                /\ \A k \in 1..Len(emits') :
                      emits'[k].event = "playerDied" /\ emits'[k].playerId = id
                         => emits'[k].foodDropped = DueDrops(id) ]_vars

\* the first player has died with two segments and a score past the cap of
\* the bonus: seven pellets reported, seven in the room
C27_Witness ==
    /\ pc = "done"
    /\ ~room.players["p1"].alive
    /\ room.players["p1"].score = 55
    /\ room.players["p2"].alive
    /\ Len(emits) = 1
    /\ emits[1].event = "playerDied"
    /\ emits[1].playerId = "p1"
    /\ emits[1].foodDropped = MaxBody + 5
    /\ Cardinality(DOMAIN room.food) = Cardinality(DOMAIN InitialFood) + MaxBody + 5

----------------------------------------------------------------------------
(* Claims about the order of a tick *)

\* the room a tick leaves when the magnetism pass runs before the collision
\* check of the players and the collection check
MagnetismFirst(rm, time, respawnDraw, foodDraw, bothDie) ==
    LET deltaMs == 1000 \div TICK_RATE
        respawned == checkRespawnsInRoom([room |-> incrementTick(rm), emits |-> <<>>],
                                         time, respawnDraw, 1)
        updated == UpdatePlayers(respawned.room, deltaMs, 1)
        attracted == updateFoodMagnetismInRoom(updated, deltaMs, 1)
        collided == checkPlayerCollisionsInRoom([room |-> attracted, emits |-> respawned.emits],
                                                time, bothDie)
        collected == checkFoodCollisionsInRoom(collided, 1)
    IN  maintainFoodCountInRoom(collected.room, foodDraw)

\* C28: in every tick the magnetism pass runs before the collision check of
\* the players and before the collection check: the room after the tick is
\* the room these passes leave when run in that order
C28_MagnetismBeforeCollisions ==
    [][ IsTickStep =>
          \E respawnDraw \in [Respawning(room, now') -> SpawnPoints \X SpawnAngles],
             foodDraw \in FoodDraws :
                room' = MagnetismFirst(room, now', respawnDraw, foodDraw,
                                       HEAD_COLLISION_BOTH_DIE) ]_vars

----------------------------------------------------------------------------
(* Claims about the rooms *)

\* a step in which a socket connects
IsRoomConnect == TotalPlayers(rooms') = TotalPlayers(rooms) + 1

\* the i-th room is not full and no room that is not full holds fewer players
LeastPopulated(rms, i) ==
    /\ ~isFull(rms[i])
    /\ \A j \in 1..Len(rms) : ~isFull(rms[j]) => rms[i].playerCount <= rms[j].playerCount

\* C29: no room ever holds more than MAX_PLAYERS_PER_ROOM players, whatever the
\* order of the connections and disconnections: a connecting player goes to a
\* room that is not full and the least populated of those, and a room is
\* created, and takes the player, only when every room is full
C29_RoomsWithinCapacity ==
    /\ [](\A i \in 1..Len(rooms) : rooms[i].playerCount <= MAX_PLAYERS_PER_ROOM)
    /\ [][IsRoomConnect =>
             \/ \E i \in 1..Len(rooms) :
                   /\ LeastPopulated(rooms, i)
                   /\ rooms' = [rooms EXCEPT ![i].playerCount = @ + 1]
             \/ /\ \A i \in 1..Len(rooms) : isFull(rooms[i])
                /\ Len(rooms') = Len(rooms) + 1
                /\ SubSeq(rooms', 1, Len(rooms)) = rooms
                /\ rooms'[Len(rooms')].playerCount = 1]_vars

\* the first room is full and a second one was created for the next player
C29_Witness ==
    /\ Len(rooms) = 2
    /\ rooms[1].playerCount = MAX_PLAYERS_PER_ROOM
    /\ rooms[2].playerCount = 1
    /\ roomCounter = 2

\* no room of the Map is empty, or only MIN_ROOMS rooms are there
NoEmptyRoomLeft(rms) ==
    \/ Len(rms) = MIN_ROOMS
    \/ \A i \in 1..Len(rms) : ~isEmpty(rms[i])

\* C30: there are never fewer than MIN_ROOMS rooms, and the cleanup at the end
\* of a pass of the game loop leaves no empty room unless exactly MIN_ROOMS
\* rooms are left; rooms go away in no other way, and only empty ones
C30_RoomsFloor ==
    /\ [](/\ Len(rooms) >= MIN_ROOMS
          /\ NoEmptyRoomLeft(cleanupEmptyRooms(rooms)))
    /\ [][Len(rooms') < Len(rooms) =>
             /\ NoEmptyRoomLeft(rooms')
             /\ \A i \in 1..Len(rooms) :
                   ~isEmpty(rooms[i]) => \E j \in 1..Len(rooms') : rooms'[j] = rooms[i]]_vars

\* two rooms were empty: the pass deleted the first and kept the second,
\* empty as it is, as the only room
C30_Witness ==
    /\ Len(rooms) = MIN_ROOMS
    /\ rooms[1].id = 2
    /\ isEmpty(rooms[1])

----------------------------------------------------------------------------
(* Claims about the amount of food *)

\* C32: a room never holds more than MAX_FOOD_COUNT pellets, from its creation
\* on
C32_FoodWithinMax == Cardinality(DOMAIN room.food) <= MAX_FOOD_COUNT

----------------------------------------------------------------------------
(* Claims about the drag *)

\* the player has the zero input and is alive
Coasting(rm, id) ==
    /\ rm.players[id].alive
    /\ rm.players[id].input.mouseX = 0
    /\ rm.players[id].input.mouseY = 0

\* C33: with the zero input every tick multiplies the speed by 0.95, so that
\* it falls towards 0 and never rises or changes sign, and a player that
\* coasts from speed 50 is within 0.5 of speed 0 after DragSeconds (3 seconds)
\* of ticks
C33_DragSettles ==
    /\ [][IsTickStep =>
             \A id \in DOMAIN room.players :
                Coasting(room, id) =>
                   /\ room'.players[id].currentSpeed >= 0
                   /\ room'.players[id].currentSpeed <= room.players[id].currentSpeed
                   /\ Abs(100 * room'.players[id].currentSpeed
                          - DRAG * room.players[id].currentSpeed) < 100]_vars
    /\ [](room.currentTick = horizon =>
             \A id \in DOMAIN room.players :
                Coasting(room, id) => room.players[id].currentSpeed <= 50)

----------------------------------------------------------------------------
(* Claims about the input history *)

\* the sequence numbers of the history rise strictly
StrictlyIncreasing(h) ==
    \A i \in 1..(Len(h) - 1) : h[i].input.sequence < h[i + 1].input.sequence

\* C34: the input history never holds more than INPUT_BUFFER_SIZE entries, its
\* sequence numbers rise strictly, and a frame that would exceed the bound
\* drops the entries with the lowest sequence numbers: what it keeps are the
\* latest entries, unchanged, and the new one
C34_HistoryBounded ==
    /\ [](/\ Len(clientPrediction.inputHistory) <= INPUT_BUFFER_SIZE
          /\ StrictlyIncreasing(clientPrediction.inputHistory))
    /\ [][IsFrameStep =>
             LET h == clientPrediction.inputHistory
                 kept == Len(clientPrediction'.inputHistory) - 1
             IN  /\ kept = Min(Len(h), INPUT_BUFFER_SIZE - 1)
                 /\ SubSeq(clientPrediction'.inputHistory, 1, kept)
                       = SubSeq(h, Len(h) - kept + 1, Len(h))
                 /\ Len(h) > 0 =>
                       Last(clientPrediction'.inputHistory).input.sequence
                          > Last(h).input.sequence]_vars

\* the history is full and, with no snapshot handled, its first entries are gone
C34_Witness ==
    /\ Len(clientPrediction.inputHistory) = INPUT_BUFFER_SIZE
    /\ clientPrediction.inputHistory[1].input.sequence > 1
    /\ gameState.tick = 0


\* ------------------------------------------------------------------------
\* Claims about the respawn timer
\* ------------------------------------------------------------------------

\* C40: in every reachable server state a player is dead if and only if its
\* respawnTime is greater than 0: a dead player has a respawn timer pending
\* and an alive player has respawnTime = 0
C40_DeadIffTimer ==
    \A id \in DOMAIN room.players :
        (~room.players[id].alive) <=> (room.players[id].respawnTime > 0)

\* a player that fell and came back: it is alive again and its timer is 0
C40_Witness ==
    /\ \E i \in DOMAIN emits : emits[i].event = "playerRespawned"
    /\ \E id \in DOMAIN room.players :
           room.players[id].alive /\ room.players[id].respawnTime = 0


\* ------------------------------------------------------------------------
\* Claims about the dead
\* ------------------------------------------------------------------------

\* the players that are dead before and after the step
StaysDead == {id \in DOMAIN room.players \cap DOMAIN room'.players :
                 ~room.players[id].alive /\ ~room'.players[id].alive}

\* the food the player would collect, and the food it would pull, if alive
InReachOf(rm, id) ==
    { f \in DOMAIN rm.food :
        DistLT(rm.players[id].x - rm.food[f].x, rm.players[id].y - rm.food[f].y,
               FOOD_MAGNET_RADIUS) }

\* C38: from the moment a player is marked dead until it respawns, its body
\* is empty, its targetLength is 0, its trail is empty, its position does
\* not change, and it neither attracts nor collects food: the food within
\* its reach that no living player is near stays in the room where it was,
\* and its score does not grow
C38_DeadIsInert ==
    /\ [](\A id \in DOMAIN room.players :
             ~room.players[id].alive =>
                 /\ room.players[id].bodySegments = <<>>
                 /\ room.players[id].targetLength = 0
                 /\ room.players[id].positionHistory = <<>>)
    /\ [][\A id \in StaysDead :
             /\ room'.players[id].x = room.players[id].x
             /\ room'.players[id].y = room.players[id].y
             /\ room'.players[id].score = room.players[id].score
             /\ \A f \in InReachOf(room, id) :
                   (\A other \in DOMAIN room.players :
                        room.players[other].alive => f \notin InReachOf(room, other))
                   => /\ f \in DOMAIN room'.food
                      /\ room'.food[f] = room.food[f]]_vars

\* a dead player a tick has passed over, with food within its collection
\* radius
C38_Witness ==
    /\ pc = "idle"
    /\ room.currentTick > 0
    /\ \E id \in DOMAIN room.players :
          /\ ~room.players[id].alive
          /\ \E f \in DOMAIN room.food :
                DistLT(room.players[id].x - room.food[f].x,
                       room.players[id].y - room.food[f].y,
                       PLAYER_CONFIG_RADIUS + FOOD_RADIUS)


\* ------------------------------------------------------------------------
\* Claims about the death events
\* ------------------------------------------------------------------------

\* the players a step marks dead
Dying == {id \in DOMAIN room.players : room.players[id].alive /\ ~room'.players[id].alive}

\* the playerDied events among the messages of the step
DiedNow == {i \in DOMAIN emits' : emits'[i].event = "playerDied"}

\* C36: every death emits exactly one playerDied event and raises the kills
\* of at most one player, the killer the event names and never the victim
\* itself, by exactly 1, even when the same victim is listed by several
\* collision checks of the tick
C36_OneEventPerDeath ==
    [][pc = "collide" =>
        /\ \A id \in DOMAIN room.players :
              Cardinality({i \in DiedNow : emits'[i].playerId = id})
                 = IF id \in Dying THEN 1 ELSE 0
        /\ \A i \in DiedNow : emits'[i].killerId # emits'[i].playerId
        /\ \A id \in DOMAIN room.players :
              room'.players[id].kills - room.players[id].kills
                 = Cardinality({i \in DiedNow : emits'[i].killerId = id})]_vars

\* a victim two collision checks have listed, dead with one event
C36_Witness ==
    /\ pc = "done"
    /\ \E i, j \in DOMAIN deaths : i # j /\ deaths[i].player = deaths[j].player
                                         /\ deaths[i].killer # deaths[j].killer
    /\ \E i \in DOMAIN emits : emits[i].event = "playerDied"


\* ------------------------------------------------------------------------
\* Claims about the border
\* ------------------------------------------------------------------------

\* the margin of isAtWorldBorder: half the head radius
BorderMargin == PLAYER_CONFIG_RADIUS \div 2

\* C37: in every broadcast snapshot every player of the room flagged alive
\* lies strictly inside the border margin: margin < x < WORLD_WIDTH - margin
\* and margin < y < WORLD_HEIGHT - margin, with margin half the head radius
C37_AliveInsideBorder ==
    [][IsTickStep =>
        \A id \in DOMAIN snapshot'.players :
            snapshot'.players[id].alive =>
                /\ BorderMargin < snapshot'.players[id].x
                /\ snapshot'.players[id].x < WORLD_WIDTH - BorderMargin
                /\ BorderMargin < snapshot'.players[id].y
                /\ snapshot'.players[id].y < WORLD_HEIGHT - BorderMargin]_vars

\* a snapshot of the tick in which a player came to lie on the margin or
\* beyond it and died of it
C37_Witness ==
    /\ \E i \in DOMAIN emits : emits[i].event = "playerDied" /\ emits[i].cause = "world_border"
    /\ \E id \in DOMAIN snapshot.players :
          /\ ~snapshot.players[id].alive
          /\ \/ snapshot.players[id].x = WORLD_WIDTH - BorderMargin
             \/ snapshot.players[id].y > WORLD_HEIGHT - BorderMargin
    /\ snapshot.tick = room.currentTick
    /\ room.currentTick > 0


\* ------------------------------------------------------------------------
\* Claims about players that have not joined
\* ------------------------------------------------------------------------

\* the players that have not joined, before and after the step
StaysUnjoined == {id \in DOMAIN room.players \cap DOMAIN room'.players :
                     ~room.players[id].hasJoined /\ ~room'.players[id].hasJoined}

\* C35: a player that has connected but not joined is inert in the
\* simulation: until it joins it cannot be marked dead by a collision, cannot
\* be recorded as the killer of another player, and cannot attract or collect
\* food
C35_UnjoinedInert ==
    [][\A id \in StaysUnjoined :
          /\ room.players[id].alive => room'.players[id].alive
          /\ \A i \in DOMAIN emits' :
                /\ emits'[i].event = "playerDied" => emits'[i].killerId # id
                /\ emits'[i].event = "foodCollected" => emits'[i].playerId # id
          /\ room'.players[id].score = room.players[id].score
          /\ \A f \in InReachOf(room', id) \cap DOMAIN room.food :
                (\A other \in DOMAIN room.players \ {id} :
                     room'.players[other].alive => f \notin InReachOf(room, other))
                => room'.food[f] = room.food[f]]_vars


\* ------------------------------------------------------------------------
\* Claims about the acknowledged input
\* ------------------------------------------------------------------------

\* the snapshot of the previous broadcast reports this sequence number for
\* the player: a movement step has run on that input, or it is 0, none
KnownApplied(id, sequence) ==
    \/ sequence = 0
    \/ /\ snapshot # Nothing
       /\ id \in DOMAIN snapshot.players
       /\ snapshot.players[id].lastProcessedInput = sequence

\* the players updatePlayerMovement is called for in the tick of this step
MovedInTick == {id \in DOMAIN room.players :
                   room.players[id].alive \/ id \in Respawning(room, now')}

\* the snapshot a tick broadcasts reports inputs a movement step has applied
TickReportsApplied ==
    IsTickStep =>
        \A id \in DOMAIN snapshot'.players :
            IF id \in MovedInTick
            THEN snapshot'.players[id].lastProcessedInput = room.players[id].input.sequence
            ELSE KnownApplied(id, snapshot'.players[id].lastProcessedInput)

\* the snapshot of a connected message reports inputs a movement step has
\* applied
ConnectedReportsApplied ==
    \A playerId \in PlayerIds :
        received' = [event |-> "connection", from |-> playerId] =>
            \A id \in DOMAIN emits'[1].snapshot.players :
                KnownApplied(id, emits'[1].snapshot.players[id].lastProcessedInput)

\* C39: in every snapshot the server emits, the lastProcessedInput reported
\* for a player is the sequence number of an input that a movement step has
\* already applied to that player before the snapshot was built, never that
\* of an input received but not yet applied
C39_AckOnlyApplied == [][TickReportsApplied /\ ConnectedReportsApplied]_vars


\* ------------------------------------------------------------------------
\* Claims about the independence of the rooms
\* ------------------------------------------------------------------------

\* the value of the food of a room that is gone after the step
ValueGone(before, after) ==
    SumValues(before.food, Ascending(DOMAIN before.food \ DOMAIN after.food))

\* what a tick does to a room of one player when no other room interferes:
\* the tick counter rises by one, the room keeps its players, the player does
\* not die unless it is at the border, and its score grows by the value of
\* the food that left this room
TickedOnItsOwn(before, after) ==
    /\ after.currentTick = before.currentTick + 1
    /\ DOMAIN after.players = DOMAIN before.players
    /\ after.playerOrder = before.playerOrder
    /\ \A id \in DOMAIN before.players :
          (before.players[id].alive /\ Len(before.playerOrder) = 1) =>
              /\ after.players[id].alive \/ isAtWorldBorder(after.players[id])
              /\ after.players[id].alive =>
                    after.players[id].score - before.players[id].score
                       = ValueGone(before, after)

\* C31: a tick of one room, and any message from a socket of that room,
\* leaves the players, the food and the tick counter of every other room
\* unchanged, and players at the same coordinates in different rooms never
\* collide with each other or collect each other's food
C31_RoomsIndependent ==
    [][IF IsTickStep
       THEN /\ TickedOnItsOwn(room, room')
            /\ Len(others') = Len(others)
            /\ \A i \in DOMAIN others : TickedOnItsOwn(others[i], others'[i])
       ELSE others' = others]_vars

\* after a tick the players of two rooms are alive at the same coordinates,
\* and each has collected the pellet 0 of its own room
C31_Witness ==
    /\ room.currentTick > 0
    /\ others # <<>>
    /\ \E id \in DOMAIN room.players, other \in DOMAIN others[1].players :
          /\ room.players[id].alive /\ others[1].players[other].alive
          /\ room.players[id].x = others[1].players[other].x
          /\ room.players[id].y = others[1].players[other].y
          /\ room.players[id].score > 0 /\ others[1].players[other].score > 0
    /\ 0 \notin DOMAIN room.food
    /\ 0 \notin DOMAIN others[1].food

====
